---------------------------- MODULE Spec2Model ----------------------------
(***************************************************************************)
(* SmartPath backend: the grade scale, the spaced-repetition scheduler,    *)
(* the mastery estimator and the difficulty adapter of backend/utils.py,   *)
(* and the flashcard review handler of backend/services.py.                *)
(*                                                                         *)
(* Representation.                                                         *)
(*   - A Python str whose characters matter (a grade) is a sequence of     *)
(*     one-character strings: "B+" is <<"B", "+">>.                        *)
(*   - Grade values (floats with at most one decimal) are integers in      *)
(*     tenths: 12.0 is 120, 11.5 is 115, 3.7 is 37.                        *)
(*   - A datetime is an integer number of days; timedelta(days=n) is n.    *)
(*   - The mastery level (a float in [0,1]) is an exact fraction           *)
(*     [num, den]; Python's / on small integers and the products below     *)
(*     are compared only against 0, 1 and each other.                      *)
(***************************************************************************)
EXTENDS Integers, Sequences, FiniteSets, TLC

VARIABLES
    flashcards,         \* table 'flashcards': card_id -> row, or NoCard
    flashcard_reviews,  \* table 'flashcard_reviews': rows in insertion order
    clock,              \* datetime.utcnow(), in days
    response,           \* what the last review request returned or raised
    args,               \* the inputs of a utility-function call
    call,               \* the utility function applied to args and its result
    academic_reports,   \* table 'academic_reports': rows in insertion order
    subject_performance,\* table 'subject_performance': rows in insertion order
    requests,           \* requests in flight: request id -> position and locals
    invite_codes,       \* table 'invite_codes': rows in insertion order
    user_relationships, \* table 'user_relationships': rows in insertion order
    study_plans         \* table 'study_plans': rows in insertion order

vars == <<flashcards, flashcard_reviews, clock, response, args, call,
          academic_reports, subject_performance,
          requests, invite_codes, user_relationships, study_plans>>

(***************************************************************************)
(* Bounds.                                                                 *)
(***************************************************************************)
MaxReviews == 6     \* review requests in one behaviour
MaxClock == 2       \* days the clock may advance
MaxCount == 7       \* largest counter value handed to a utility function
MaxStrLen == 3      \* longest grade string handed to the grade scale

CardIds == {1}
UserIds == {1, 2}
NoCard == [is_active |-> FALSE]

\* "expert" stands for every string that is not one of the three tiers.
Difficulties == {"easy", "medium", "hard", "expert"}

(***************************************************************************)
(* str.upper() and str.strip() on character sequences.                     *)
(***************************************************************************)
Chars == {"A", "a", "B", "b", "C", "c", "D", "d", "E", "e",
          "F", "+", "-", " ", "\t"}

IsSpace(ch) == ch \in {" ", "\t", "\n", "\r"}

UpperChar(ch) ==
    CASE ch = "a" -> "A"
      [] ch = "b" -> "B"
      [] ch = "c" -> "C"
      [] ch = "d" -> "D"
      [] ch = "e" -> "E"
      [] ch = "f" -> "F"
      [] OTHER -> ch

upper(s) == [i \in 1..Len(s) |-> UpperChar(s[i])]

RECURSIVE lstrip(_)
lstrip(s) ==
    IF s # <<>> /\ IsSpace(Head(s)) THEN lstrip(Tail(s)) ELSE s

RECURSIVE rstrip(_)
rstrip(s) ==
    IF s # <<>> /\ IsSpace(s[Len(s)]) THEN rstrip(SubSeq(s, 1, Len(s) - 1))
    ELSE s

strip(s) == rstrip(lstrip(s))

(***************************************************************************)
(* Grade conversion.                                                       *)
(***************************************************************************)
LetterGrades ==
    { <<"A">>, <<"A", "-">>, <<"B", "+">>, <<"B">>, <<"B", "-">>,
      <<"C", "+">>, <<"C">>, <<"C", "-">>, <<"D", "+">>, <<"D">>,
      <<"D", "-">>, <<"E">> }

KENYAN_GRADE_SCALE(g) ==
    CASE g = <<"A">>      -> 120
      [] g = <<"A", "-">> -> 110
      [] g = <<"B", "+">> -> 100
      [] g = <<"B">>      -> 90
      [] g = <<"B", "-">> -> 80
      [] g = <<"C", "+">> -> 70
      [] g = <<"C">>      -> 60
      [] g = <<"C", "-">> -> 50
      [] g = <<"D", "+">> -> 40
      [] g = <<"D">>      -> 30
      [] g = <<"D", "-">> -> 20
      [] g = <<"E">>      -> 10

GRADE_TO_GPA(g) ==
    CASE g = <<"A">>      -> 40
      [] g = <<"A", "-">> -> 37
      [] g = <<"B", "+">> -> 33
      [] g = <<"B">>      -> 30
      [] g = <<"B", "-">> -> 27
      [] g = <<"C", "+">> -> 23
      [] g = <<"C">>      -> 20
      [] g = <<"C", "-">> -> 17
      [] g = <<"D", "+">> -> 13
      [] g = <<"D">>      -> 10
      [] g = <<"D", "-">> -> 7
      [] g = <<"E">>      -> 0

\* Faulty variant: the surrounding whitespace is not stripped.
grade_to_numeric_nostrip(grade) ==
    LET g == upper(grade)
    IN  IF g \in LetterGrades THEN KENYAN_GRADE_SCALE(g) ELSE 0

grade_to_numeric(grade) ==
    LET g == strip(upper(grade))
    IN  IF g \in LetterGrades THEN KENYAN_GRADE_SCALE(g) ELSE 0

grade_to_gpa(grade) ==
    LET g == strip(upper(grade))
    IN  IF g \in LetterGrades THEN GRADE_TO_GPA(g) ELSE 0

\* Faulty variant: the B+ boundary 9.5 is written 8.5.
numeric_to_grade_typo(numeric) ==
    IF numeric >= 115 THEN <<"A">>
    ELSE IF numeric >= 105 THEN <<"A", "-">>
    ELSE IF numeric >= 85 THEN <<"B", "+">>
    ELSE IF numeric >= 85 THEN <<"B">>
    ELSE IF numeric >= 75 THEN <<"B", "-">>
    ELSE IF numeric >= 65 THEN <<"C", "+">>
    ELSE IF numeric >= 55 THEN <<"C">>
    ELSE IF numeric >= 45 THEN <<"C", "-">>
    ELSE IF numeric >= 35 THEN <<"D", "+">>
    ELSE IF numeric >= 25 THEN <<"D">>
    ELSE IF numeric >= 15 THEN <<"D", "-">>
    ELSE <<"E">>

numeric_to_grade(numeric) ==
    IF numeric >= 115 THEN <<"A">>
    ELSE IF numeric >= 105 THEN <<"A", "-">>
    ELSE IF numeric >= 95 THEN <<"B", "+">>
    ELSE IF numeric >= 85 THEN <<"B">>
    ELSE IF numeric >= 75 THEN <<"B", "-">>
    ELSE IF numeric >= 65 THEN <<"C", "+">>
    ELSE IF numeric >= 55 THEN <<"C">>
    ELSE IF numeric >= 45 THEN <<"C", "-">>
    ELSE IF numeric >= 35 THEN <<"D", "+">>
    ELSE IF numeric >= 25 THEN <<"D">>
    ELSE IF numeric >= 15 THEN <<"D", "-">>
    ELSE <<"E">>

(***************************************************************************)
(* Flashcard algorithms.                                                   *)
(***************************************************************************)
intervals(difficulty) ==
    CASE difficulty = "easy"   -> <<1, 3, 7, 14, 30>>
      [] difficulty = "medium" -> <<1, 2, 5, 10, 21>>
      [] difficulty = "hard"   -> <<1, 1, 3, 7, 14>>

\* Faulty variant: an unknown difficulty falls back to the easy table.
interval_list_default_easy(difficulty) ==
    IF difficulty \in {"easy", "medium", "hard"} THEN intervals(difficulty)
    ELSE intervals("easy")

\* intervals.get(difficulty, intervals["medium"])
interval_list(difficulty) ==
    IF difficulty \in {"easy", "medium", "hard"} THEN intervals(difficulty)
    ELSE intervals("medium")

\* Faulty variant: the table is indexed one entry too early.
calculate_next_review_date_early(last_reviewed, difficulty, correct, times_reviewed) ==
    LET il == interval_list(difficulty)
        interval_days ==
            IF times_reviewed < Len(il)
            THEN IF correct /\ times_reviewed > 0 THEN il[times_reviewed]
                 ELSE il[1]
            ELSE il[Len(il)]
    IN  last_reviewed + interval_days

\* Faulty variant: a wrong answer schedules the card for the same day.
calculate_next_review_date_same_day(last_reviewed, difficulty, correct, times_reviewed) ==
    LET il == interval_list(difficulty)
        interval_days ==
            IF times_reviewed < Len(il)
            THEN IF correct THEN il[times_reviewed + 1] ELSE 0
            ELSE il[Len(il)]
    IN  last_reviewed + interval_days

\* Python indexes from 0: interval_list[i] is il[i + 1], interval_list[-1]
\* is il[Len(il)].
calculate_next_review_date(last_reviewed, difficulty, correct, times_reviewed) ==
    LET il == interval_list(difficulty)
        interval_days ==
            IF times_reviewed < Len(il)
            THEN IF correct THEN il[times_reviewed + 1] ELSE il[1]
            ELSE il[Len(il)]
    IN  last_reviewed + interval_days

\* Faulty variant: hard cards get the medium multiplier.
difficulty_multiplier_flat(difficulty) ==
    CASE difficulty = "easy"   -> 10
      [] difficulty = "medium" -> 9
      [] difficulty = "hard"   -> 9
      [] OTHER                 -> 9

\* difficulty_multiplier.get(difficulty, 0.9), in tenths
difficulty_multiplier(difficulty) ==
    CASE difficulty = "easy"   -> 10
      [] difficulty = "medium" -> 9
      [] difficulty = "hard"   -> 8
      [] OTHER                 -> 9

calculate_mastery_level(times_reviewed, times_correct, difficulty) ==
    IF times_reviewed = 0 THEN [num |-> 0, den |-> 1]
    ELSE LET num == times_correct * difficulty_multiplier(difficulty)
             den == times_reviewed * 10
         IN  IF num > den THEN [num |-> 1, den |-> 1]
             ELSE [num |-> num, den |-> den]

difficulty_order == <<"easy", "medium", "hard">>

\* Faulty variant: promotion needs an accuracy strictly above 0.8.
adjust_difficulty_strict(current_difficulty, times_reviewed, times_correct) ==
    IF times_reviewed < 3 THEN current_difficulty
    ELSE LET current_index ==
                 IF \E i \in 1..Len(difficulty_order) :
                        difficulty_order[i] = current_difficulty
                 THEN (CHOOSE i \in 1..Len(difficulty_order) :
                        difficulty_order[i] = current_difficulty) - 1
                 ELSE 1
         IN  IF 5 * times_correct > 4 * times_reviewed
                /\ current_index < Len(difficulty_order) - 1
             THEN difficulty_order[(current_index + 1) + 1]
             ELSE IF 2 * times_correct < times_reviewed /\ current_index > 0
             THEN difficulty_order[(current_index - 1) + 1]
             ELSE current_difficulty

\* Faulty variant: two reviews are taken as enough data.
adjust_difficulty_min2(current_difficulty, times_reviewed, times_correct) ==
    IF times_reviewed < 2 THEN current_difficulty
    ELSE LET current_index ==
                 IF \E i \in 1..Len(difficulty_order) :
                        difficulty_order[i] = current_difficulty
                 THEN (CHOOSE i \in 1..Len(difficulty_order) :
                        difficulty_order[i] = current_difficulty) - 1
                 ELSE 1
         IN  IF 5 * times_correct >= 4 * times_reviewed
                /\ current_index < Len(difficulty_order) - 1
             THEN difficulty_order[(current_index + 1) + 1]
             ELSE IF 2 * times_correct < times_reviewed /\ current_index > 0
             THEN difficulty_order[(current_index - 1) + 1]
             ELSE current_difficulty

\* Faulty variant: no neutral band, every accuracy below 0.8 demotes.
adjust_difficulty_noband(current_difficulty, times_reviewed, times_correct) ==
    IF times_reviewed < 3 THEN current_difficulty
    ELSE LET current_index ==
                 IF \E i \in 1..Len(difficulty_order) :
                        difficulty_order[i] = current_difficulty
                 THEN (CHOOSE i \in 1..Len(difficulty_order) :
                        difficulty_order[i] = current_difficulty) - 1
                 ELSE 1
         IN  IF 5 * times_correct >= 4 * times_reviewed
                /\ current_index < Len(difficulty_order) - 1
             THEN difficulty_order[(current_index + 1) + 1]
             ELSE IF 5 * times_correct < 4 * times_reviewed
                     /\ current_index > 0
             THEN difficulty_order[(current_index - 1) + 1]
             ELSE current_difficulty

\* Faulty variant: a promotion goes straight to the hardest tier.
adjust_difficulty_hardest(current_difficulty, times_reviewed, times_correct) ==
    IF times_reviewed < 3 THEN current_difficulty
    ELSE LET current_index ==
                 IF \E i \in 1..Len(difficulty_order) :
                        difficulty_order[i] = current_difficulty
                 THEN (CHOOSE i \in 1..Len(difficulty_order) :
                        difficulty_order[i] = current_difficulty) - 1
                 ELSE 1
         IN  IF 5 * times_correct >= 4 * times_reviewed
                /\ current_index < Len(difficulty_order) - 1
             THEN difficulty_order[Len(difficulty_order)]
             ELSE IF 2 * times_correct < times_reviewed /\ current_index > 0
             THEN difficulty_order[(current_index - 1) + 1]
             ELSE current_difficulty

\* accuracy >= 0.8 is 5 * times_correct >= 4 * times_reviewed and
\* accuracy < 0.5 is 2 * times_correct < times_reviewed: the quotient of two
\* small integers is correctly rounded, and 0.8 and 0.5 are the roundings of
\* 4/5 and 1/2.  current_index is 0-based as in the code.
adjust_difficulty(current_difficulty, times_reviewed, times_correct) ==
    IF times_reviewed < 3 THEN current_difficulty
    ELSE LET current_index ==
                 IF \E i \in 1..Len(difficulty_order) :
                        difficulty_order[i] = current_difficulty
                 THEN (CHOOSE i \in 1..Len(difficulty_order) :
                        difficulty_order[i] = current_difficulty) - 1
                 ELSE 1
         IN  IF 5 * times_correct >= 4 * times_reviewed
                /\ current_index < Len(difficulty_order) - 1
             THEN difficulty_order[(current_index + 1) + 1]
             ELSE IF 2 * times_correct < times_reviewed /\ current_index > 0
             THEN difficulty_order[(current_index - 1) + 1]
             ELSE current_difficulty

(***************************************************************************)
(* Flashcard service.                                                      *)
(***************************************************************************)
\* The row inserted by generate_flashcards for one card of the generator's
\* output; the difficulty is whatever string the generator produced.
new_flashcard(user_id, difficulty, now) ==
    [ is_active        |-> TRUE,
      user_id          |-> user_id,
      difficulty       |-> difficulty,
      times_reviewed   |-> 0,
      times_correct    |-> 0,
      last_reviewed    |-> -1,          \* column not set at creation
      next_review_date |-> now ]

\* Faulty variant: times_correct is incremented whatever the answer.
update_data_always_correct(flashcard, correct, now) ==
    LET times_reviewed == flashcard.times_reviewed + 1
        times_correct  == flashcard.times_correct + 1
        last_reviewed  == now
    IN  [ times_reviewed   |-> times_reviewed,
          times_correct    |-> times_correct,
          last_reviewed    |-> last_reviewed,
          next_review_date |->
              calculate_next_review_date(last_reviewed, flashcard.difficulty,
                                         correct, times_reviewed),
          difficulty       |->
              adjust_difficulty(flashcard.difficulty, times_reviewed,
                                times_correct) ]

\* Faulty variant: the next review date is taken from the interval table of
\* the difficulty this review writes.
update_data_new_difficulty(flashcard, correct, now) ==
    LET times_reviewed == flashcard.times_reviewed + 1
        times_correct  == IF correct THEN flashcard.times_correct + 1
                          ELSE flashcard.times_correct
        last_reviewed  == now
        new_difficulty == adjust_difficulty(flashcard.difficulty,
                                            times_reviewed, times_correct)
    IN  [ times_reviewed   |-> times_reviewed,
          times_correct    |-> times_correct,
          last_reviewed    |-> last_reviewed,
          next_review_date |->
              calculate_next_review_date(last_reviewed, new_difficulty,
                                         correct, times_reviewed),
          difficulty       |-> new_difficulty ]

\* The dict update_data that review_flashcard builds from the row it read.
update_data(flashcard, correct, now) ==
    LET times_reviewed == flashcard.times_reviewed + 1
        times_correct  == IF correct THEN flashcard.times_correct + 1
                          ELSE flashcard.times_correct
        last_reviewed  == now
    IN  [ times_reviewed   |-> times_reviewed,
          times_correct    |-> times_correct,
          last_reviewed    |-> last_reviewed,
          next_review_date |->
              calculate_next_review_date(last_reviewed, flashcard.difficulty,
                                         correct, times_reviewed),
          difficulty       |->
              adjust_difficulty(flashcard.difficulty, times_reviewed,
                                times_correct) ]

\* The mastery computed by review_flashcard and returned as a percentage.
review_mastery(flashcard, correct) ==
    LET times_reviewed == flashcard.times_reviewed + 1
        times_correct  == IF correct THEN flashcard.times_correct + 1
                          ELSE flashcard.times_correct
    IN  calculate_mastery_level(times_reviewed, times_correct,
                                flashcard.difficulty)

NoResponse == [status |-> "none"]
NoArgs == [kind |-> "none"]
NoCall == [fn |-> "none"]

\* Requests that may be in flight at the same time.
RequestIds == {1, 2}
NoRequest == [op |-> "none"]

generate_flashcards(card_id, user_id, difficulty) ==
    /\ flashcards[card_id] = NoCard
    /\ flashcards' = [flashcards EXCEPT
                         ![card_id] = new_flashcard(user_id, difficulty, clock)]
    /\ UNCHANGED <<flashcard_reviews, clock, response, args, call>>
    /\ UNCHANGED <<academic_reports, subject_performance>>
    /\ UNCHANGED study_plans
    /\ UNCHANGED <<requests, invite_codes, user_relationships>>

\* Faulty variant: the select does not filter by user_id.
flashcard_found_any_user(card_id, user_id) ==
    flashcards[card_id] # NoCard

\* select('*').eq('card_id', card_id).eq('user_id', user_id)
flashcard_found(card_id, user_id) ==
    /\ flashcards[card_id] # NoCard
    /\ flashcards[card_id].user_id = user_id

review_flashcard(card_id, user_id, correct) ==
    IF ~flashcard_found(card_id, user_id)
    THEN /\ response' = [status |-> "error", detail |-> "Flashcard not found",
                         card_id |-> card_id, user_id |-> user_id]
         /\ UNCHANGED <<flashcards, flashcard_reviews, clock, args, call>>
         /\ UNCHANGED <<academic_reports, subject_performance>>
         /\ UNCHANGED study_plans
         /\ UNCHANGED <<requests, invite_codes, user_relationships>>
    ELSE LET flashcard == flashcards[card_id]
             upd == update_data(flashcard, correct, clock)
             mastery == review_mastery(flashcard, correct)
         IN  /\ Len(flashcard_reviews) < MaxReviews
             /\ flashcards' = [flashcards EXCEPT ![card_id] =
                    [ is_active        |-> flashcard.is_active,
                      user_id          |-> flashcard.user_id,
                      difficulty       |-> upd.difficulty,
                      times_reviewed   |-> upd.times_reviewed,
                      times_correct    |-> upd.times_correct,
                      last_reviewed    |-> upd.last_reviewed,
                      next_review_date |-> upd.next_review_date ]]
             /\ flashcard_reviews' = Append(flashcard_reviews,
                    [ card_id |-> card_id, user_id |-> user_id,
                      correct |-> correct, reviewed_at |-> clock ])
             /\ response' = [status |-> "ok", message |-> "Review recorded",
                             card_id |-> card_id, user_id |-> user_id,
                             mastery_level |-> [num |-> mastery.num * 100,
                                                den |-> mastery.den]]
             /\ UNCHANGED <<clock, args, call>>
             /\ UNCHANGED <<academic_reports, subject_performance>>
             /\ UNCHANGED study_plans
             /\ UNCHANGED <<requests, invite_codes, user_relationships>>

\* Time passes between requests.
Tick ==
    /\ clock < MaxClock
    /\ clock' = clock + 1
    /\ UNCHANGED <<flashcards, flashcard_reviews, response, args, call>>
    /\ UNCHANGED <<academic_reports, subject_performance>>
    /\ UNCHANGED study_plans
    /\ UNCHANGED <<requests, invite_codes, user_relationships>>

Init ==
    /\ flashcards = [id \in CardIds |-> NoCard]
    /\ flashcard_reviews = <<>>
    /\ clock = 0
    /\ response = NoResponse
    /\ args = NoArgs
    /\ call = NoCall
    /\ academic_reports = <<>>
    /\ subject_performance = <<>>
    /\ requests = [id \in RequestIds |-> NoRequest]
    /\ invite_codes = <<>>
    /\ user_relationships = <<>>
    /\ study_plans = <<>>

Next ==
    \/ \E id \in CardIds, u \in UserIds, d \in Difficulties :
           generate_flashcards(id, u, d)
    \/ \E id \in CardIds, u \in UserIds, c \in BOOLEAN :
           review_flashcard(id, u, c)
    \/ Tick

Spec == Init /\ [][Next]_vars

(***************************************************************************)
(* The utility functions applied to inputs drawn from bounded sets.        *)
(***************************************************************************)
Strings == UNION { [1..n -> Chars] : n \in 0..MaxStrLen }

FlashcardArgs ==
    [ kind : {"flashcard"}, difficulty : Difficulties,
      times_reviewed : 0..MaxCount, times_correct : 0..MaxCount,
      correct : BOOLEAN, last_reviewed : 0..MaxClock, grade : {<<>>} ]

GradeArgs ==
    [ kind : {"grade"}, difficulty : {"medium"},
      times_reviewed : {0}, times_correct : {0},
      correct : {FALSE}, last_reviewed : {0}, grade : Strings ]

Call_calculate_next_review_date ==
    /\ args.kind = "flashcard"
    /\ call' = [fn |-> "calculate_next_review_date",
                result |-> calculate_next_review_date(args.last_reviewed,
                               args.difficulty, args.correct,
                               args.times_reviewed)]
    /\ UNCHANGED <<flashcards, flashcard_reviews, clock, response, args>>
    /\ UNCHANGED <<academic_reports, subject_performance>>
    /\ UNCHANGED study_plans
    /\ UNCHANGED <<requests, invite_codes, user_relationships>>

Call_calculate_mastery_level ==
    /\ args.kind = "flashcard"
    /\ call' = [fn |-> "calculate_mastery_level",
                result |-> calculate_mastery_level(args.times_reviewed,
                               args.times_correct, args.difficulty)]
    /\ UNCHANGED <<flashcards, flashcard_reviews, clock, response, args>>
    /\ UNCHANGED <<academic_reports, subject_performance>>
    /\ UNCHANGED study_plans
    /\ UNCHANGED <<requests, invite_codes, user_relationships>>

Call_adjust_difficulty ==
    /\ args.kind = "flashcard"
    /\ call' = [fn |-> "adjust_difficulty",
                result |-> adjust_difficulty(args.difficulty,
                               args.times_reviewed, args.times_correct)]
    /\ UNCHANGED <<flashcards, flashcard_reviews, clock, response, args>>
    /\ UNCHANGED <<academic_reports, subject_performance>>
    /\ UNCHANGED study_plans
    /\ UNCHANGED <<requests, invite_codes, user_relationships>>

Call_grade_to_numeric ==
    /\ args.kind = "grade"
    /\ call' = [fn |-> "grade_to_numeric",
                result |-> grade_to_numeric(args.grade)]
    /\ UNCHANGED <<flashcards, flashcard_reviews, clock, response, args>>
    /\ UNCHANGED <<academic_reports, subject_performance>>
    /\ UNCHANGED study_plans
    /\ UNCHANGED <<requests, invite_codes, user_relationships>>

Call_grade_to_gpa ==
    /\ args.kind = "grade"
    /\ call' = [fn |-> "grade_to_gpa", result |-> grade_to_gpa(args.grade)]
    /\ UNCHANGED <<flashcards, flashcard_reviews, clock, response, args>>
    /\ UNCHANGED <<academic_reports, subject_performance>>
    /\ UNCHANGED study_plans
    /\ UNCHANGED <<requests, invite_codes, user_relationships>>

\* numeric_to_grade applied to the value grade_to_numeric just returned.
Call_numeric_to_grade ==
    /\ call.fn = "grade_to_numeric"
    /\ call' = [fn |-> "numeric_to_grade", arg |-> call.result,
                result |-> numeric_to_grade(call.result)]
    /\ UNCHANGED <<flashcards, flashcard_reviews, clock, response, args>>
    /\ UNCHANGED <<academic_reports, subject_performance>>
    /\ UNCHANGED study_plans
    /\ UNCHANGED <<requests, invite_codes, user_relationships>>

InitUtils ==
    /\ flashcards = [id \in CardIds |-> NoCard]
    /\ flashcard_reviews = <<>>
    /\ clock = 0
    /\ response = NoResponse
    /\ args \in FlashcardArgs \cup GradeArgs
    /\ call = NoCall
    /\ academic_reports = <<>>
    /\ subject_performance = <<>>
    /\ requests = [id \in RequestIds |-> NoRequest]
    /\ invite_codes = <<>>
    /\ user_relationships = <<>>
    /\ study_plans = <<>>

NextUtils ==
    \/ Call_calculate_next_review_date
    \/ Call_calculate_mastery_level
    \/ Call_adjust_difficulty
    \/ Call_grade_to_numeric
    \/ Call_grade_to_gpa
    \/ Call_numeric_to_grade

SpecUtils == InitUtils /\ [][NextUtils]_vars

(***************************************************************************)
(* Trend analysis.  A grade history is a sequence of grade values in       *)
(* tenths, index 1 being Python's index 0.                                 *)
(***************************************************************************)
MaxHist == 4        \* longest grade history handed to the trend analysis

\* Grade values a history is built from: 0.0 (an unknown grade), E, C, C+,
\* B and A.
HistoryValues == {0, 10, 60, 70, 90, 120}

RECURSIVE sum(_)
sum(seq) == IF seq = <<>> THEN 0 ELSE Head(seq) + sum(Tail(seq))

\* n * sum_xy - sum_x * sum_y, with x = range(n); in tenths
slope_numerator(y) ==
    LET n == Len(y)
        sum_x == sum([i \in 1..n |-> i - 1])
        sum_y == sum(y)
        sum_xy == sum([i \in 1..n |-> (i - 1) * y[i]])
    IN  n * sum_xy - sum_x * sum_y

\* n * sum_x2 - sum_x ** 2
slope_denominator(y) ==
    LET n == Len(y)
        sum_x == sum([i \in 1..n |-> i - 1])
        sum_x2 == sum([i \in 1..n |-> (i - 1) * (i - 1)])
    IN  n * sum_x2 - sum_x * sum_x

\* Faulty variant: a slope of exactly 0.1 or -0.1 already counts as a trend.
analyze_grade_trend_inclusive(grades_history) ==
    IF Len(grades_history) < 2 THEN "stable"
    ELSE LET den == slope_denominator(grades_history)
             num == IF den # 0 THEN slope_numerator(grades_history) ELSE 0
             d == IF den # 0 THEN den ELSE 1
         IN  IF num >= d THEN "improving"
             ELSE IF num <= -d THEN "declining"
             ELSE "stable"

\* slope = num / (10 * den) with den > 0 (or slope = 0 when den = 0), so
\* slope > 0.1 is num > den and slope < -0.1 is num < -den.  The operands
\* are small integers, the quotient is correctly rounded and 0.1 is the
\* rounding of 1/10, so the float comparison agrees with the exact one.
analyze_grade_trend(grades_history) ==
    IF Len(grades_history) < 2 THEN "stable"
    ELSE LET den == slope_denominator(grades_history)
             num == IF den # 0 THEN slope_numerator(grades_history) ELSE 0
             d == IF den # 0 THEN den ELSE 1
         IN  IF num > d THEN "improving"
             ELSE IF num < -d THEN "declining"
             ELSE "stable"

Min(a, b) == IF a <= b THEN a ELSE b
Max(a, b) == IF a >= b THEN a ELSE b

\* grades_history[-3:]
last_three(grades_history) ==
    LET n == Len(grades_history)
    IN  SubSeq(grades_history, Max(1, n - 2), n)

\* Faulty variant: the average is taken over the whole history.
predict_next_grade_whole(grades_history) ==
    IF grades_history = <<>> THEN [num |-> 0, den |-> 1]
    ELSE IF Len(grades_history) = 1 THEN [num |-> grades_history[1], den |-> 1]
    ELSE LET trend == analyze_grade_trend(grades_history)
             k == Len(grades_history)
             s == sum(grades_history)
         IN  IF trend = "improving"
             THEN [num |-> Min(120 * k, s + 5 * k), den |-> k]
             ELSE IF trend = "declining"
             THEN [num |-> Max(10 * k, s - 3 * k), den |-> k]
             ELSE [num |-> s, den |-> k]

\* Faulty variant: an improving history is not capped at 12.0.
predict_next_grade_uncapped(grades_history) ==
    IF grades_history = <<>> THEN [num |-> 0, den |-> 1]
    ELSE IF Len(grades_history) = 1 THEN [num |-> grades_history[1], den |-> 1]
    ELSE LET trend == analyze_grade_trend(grades_history)
             k == Min(3, Len(grades_history))
             s == sum(last_three(grades_history))
         IN  IF trend = "improving"
             THEN [num |-> s + 5 * k, den |-> k]
             ELSE IF trend = "declining"
             THEN [num |-> Max(10 * k, s - 3 * k), den |-> k]
             ELSE [num |-> s, den |-> k]

\* Faulty variant: an improving history is bumped by 0.3 instead of 0.5.
predict_next_grade_bump3(grades_history) ==
    IF grades_history = <<>> THEN [num |-> 0, den |-> 1]
    ELSE IF Len(grades_history) = 1 THEN [num |-> grades_history[1], den |-> 1]
    ELSE LET trend == analyze_grade_trend(grades_history)
             k == Min(3, Len(grades_history))
             s == sum(last_three(grades_history))
         IN  IF trend = "improving"
             THEN [num |-> Min(120 * k, s + 3 * k), den |-> k]
             ELSE IF trend = "declining"
             THEN [num |-> Max(10 * k, s - 3 * k), den |-> k]
             ELSE [num |-> s, den |-> k]

\* The result is the fraction num / den, in tenths: recent_avg is s / k, and
\* recent_avg + 0.5 is (s + 5 * k) / k.
predict_next_grade(grades_history) ==
    IF grades_history = <<>> THEN [num |-> 0, den |-> 1]
    ELSE IF Len(grades_history) = 1 THEN [num |-> grades_history[1], den |-> 1]
    ELSE LET trend == analyze_grade_trend(grades_history)
             k == Min(3, Len(grades_history))
             s == sum(last_three(grades_history))
         IN  IF trend = "improving"
             THEN [num |-> Min(120 * k, s + 5 * k), den |-> k]
             ELSE IF trend = "declining"
             THEN [num |-> Max(10 * k, s - 3 * k), den |-> k]
             ELSE [num |-> s, den |-> k]

(***************************************************************************)
(* Subject analysis.  A Dict[str, str] of grades is a sequence of          *)
(* <<subject, grade>> pairs with distinct subjects, in insertion order; an *)
(* Optional value is <<>> for None and <<v>> otherwise.                    *)
(***************************************************************************)
Range(seq) == { seq[i] : i \in 1..Len(seq) }

\* subject in d
dict_has(d, subject) == \E i \in 1..Len(d) : d[i][1] = subject

\* d.get(subject, default)
dict_get(d, subject, default) ==
    IF dict_has(d, subject)
    THEN d[CHOOSE i \in 1..Len(d) : d[i][1] = subject][2]
    ELSE default

\* [subject for subject, grade in items]
keys_of(items) == [i \in 1..Len(items) |-> items[i][1]]

identify_strong_subjects(grades, threshold) ==
    LET threshold_numeric == grade_to_numeric(threshold)
        test(item) == grade_to_numeric(item[2]) >= threshold_numeric
    IN  keys_of(SelectSeq(grades, test))

\* Faulty variant: a grade equal to the threshold counts as weak.
identify_weak_subjects_inclusive(grades, threshold) ==
    LET threshold_numeric == grade_to_numeric(threshold)
        test(item) == grade_to_numeric(item[2]) <= threshold_numeric
    IN  keys_of(SelectSeq(grades, test))

identify_weak_subjects(grades, threshold) ==
    LET threshold_numeric == grade_to_numeric(threshold)
        test(item) == grade_to_numeric(item[2]) < threshold_numeric
    IN  keys_of(SelectSeq(grades, test))

\* Faulty variant: the score is not clamped to [0, 100].
calculate_strength_score_unclamped(grade, trend) ==
    LET base_score == 5 * grade_to_numeric(grade)
        adjusted == IF trend = "improving" THEN base_score + 30
                    ELSE IF trend = "declining" THEN base_score - 30
                    ELSE base_score
    IN  [num |-> adjusted, den |-> 6]

\* The score is the fraction num / 6: with the grade value g in tenths,
\* (g / 120) * 100 is 5 * g / 6, and 5 is 30 / 6.
calculate_strength_score(grade, trend) ==
    LET base_score == 5 * grade_to_numeric(grade)
        adjusted == IF trend = "improving" THEN base_score + 30
                    ELSE IF trend = "declining" THEN base_score - 30
                    ELSE base_score
    IN  [num |-> Max(0, Min(600, adjusted)), den |-> 6]

(***************************************************************************)
(* Study planning.                                                         *)
(***************************************************************************)
\* Faulty variant: an exam on the current day leaves 0 days.
calculate_study_hours_needed_zero(weak_subjects, exam_date, current_date, now) ==
    LET current == IF current_date = <<>> THEN now ELSE current_date[1]
        exam == IF exam_date = <<>> THEN current + 90 ELSE exam_date[1]
        days == exam - current
        days_available == IF days < 0 THEN 90 ELSE days
    IN  [subject \in Range(weak_subjects) |->
             [num |-> 25 * days_available, den |-> 70]]

\* The result maps each subject to the fraction num / den of hours:
\* (2.5 * days_available) / 7 is 25 * days_available / 70.  now is
\* datetime.utcnow().
calculate_study_hours_needed(weak_subjects, exam_date, current_date, now) ==
    LET current == IF current_date = <<>> THEN now ELSE current_date[1]
        exam == IF exam_date = <<>> THEN current + 90 ELSE exam_date[1]
        days == exam - current
        days_available == IF days <= 0 THEN 90 ELSE days
    IN  [subject \in Range(weak_subjects) |->
             [num |-> 25 * days_available, den |-> 70]]

\* int(x / 100) for an integer x: Python's int() truncates toward zero.
int_of_hundredths(x) == IF x >= 0 THEN x \div 100 ELSE -((-x) \div 100)

\* The (subject, score) tuple appended for one subject.  The grade value is
\* in tenths and an exam weight in hundredths, so priority * 10 is
\* (120 - grade_numeric) * weight / 100.
priority_of(subject, grades, exam_weights) ==
    LET grade == dict_get(grades, subject, <<"E">>)
        grade_numeric == grade_to_numeric(grade)
        weight == IF /\ exam_weights # <<>>
                     /\ exam_weights[1] # <<>>
                     /\ dict_has(exam_weights[1], subject)
                  THEN dict_get(exam_weights[1], subject, 100)
                  ELSE 100
    IN  <<subject, int_of_hundredths((120 - grade_numeric) * weight)>>

\* One step of a stable descending sort: item goes behind every element whose
\* score is at least its own.
insert_descending(sorted, item) ==
    LET lower == { i \in 1..Len(sorted) : sorted[i][2] < item[2] }
        pos == IF lower = {} THEN Len(sorted) + 1
               ELSE CHOOSE i \in lower : \A j \in lower : i <= j
    IN  SubSeq(sorted, 1, pos - 1) \o <<item>> \o SubSeq(sorted, pos, Len(sorted))

\* list.sort(key=lambda x: x[1], reverse=True): stable, descending by score
RECURSIVE sort_descending(_)
sort_descending(items) ==
    IF items = <<>> THEN <<>>
    ELSE insert_descending(sort_descending(SubSeq(items, 1, Len(items) - 1)),
                           items[Len(items)])

\* Faulty variant: the list is returned in input order, unsorted.
prioritize_study_topics_unsorted(subjects, grades, exam_weights) ==
    [i \in 1..Len(subjects) |-> priority_of(subjects[i], grades, exam_weights)]

\* Faulty variant: the exam weights are ignored.
prioritize_study_topics_unweighted(subjects, grades, exam_weights) ==
    sort_descending(
        [i \in 1..Len(subjects) |-> priority_of(subjects[i], grades, <<>>)])

prioritize_study_topics(subjects, grades, exam_weights) ==
    sort_descending(
        [i \in 1..Len(subjects) |->
             priority_of(subjects[i], grades, exam_weights)])

(***************************************************************************)
(* The analytics functions applied to inputs drawn from bounded sets.      *)
(***************************************************************************)
Histories == UNION { [1..n -> HistoryValues] : n \in 0..MaxHist }

HistoryArgs == [ kind : {"history"}, history : Histories ]

Call_analyze_grade_trend ==
    /\ args.kind = "history"
    /\ call' = [fn |-> "analyze_grade_trend",
                result |-> analyze_grade_trend(args.history)]
    /\ UNCHANGED <<flashcards, flashcard_reviews, clock, response, args>>
    /\ UNCHANGED <<academic_reports, subject_performance>>
    /\ UNCHANGED study_plans
    /\ UNCHANGED <<requests, invite_codes, user_relationships>>

Call_predict_next_grade ==
    /\ args.kind = "history"
    /\ call' = [fn |-> "predict_next_grade",
                result |-> predict_next_grade(args.history)]
    /\ UNCHANGED <<flashcards, flashcard_reviews, clock, response, args>>
    /\ UNCHANGED <<academic_reports, subject_performance>>
    /\ UNCHANGED study_plans
    /\ UNCHANGED <<requests, invite_codes, user_relationships>>

MaxSubjects == 2    \* longest subject list and largest grades dict

SubjectNames == {"Math", "Eng", "Bio"}

\* Grades a report may hold: valid ones, one in lower case, and "F", which
\* is not on the scale.
DictGrades == { <<"A">>, <<"B", "+">>, <<"B">>, <<"b">>, <<"C">>, <<"E">>,
                <<"F">> }

Thresholds == { <<"B", "+">>, <<"B">>, <<"C">>, <<"F">> }

Trends == {"improving", "declining", "stable", "steady"}

StrengthGrades ==
    LetterGrades \cup { <<>>, <<"F">>, <<"b", "+">>, <<" ", "a">>,
                        <<"A", "+">> }

SubjectLists == UNION { [1..n -> SubjectNames] : n \in 0..MaxSubjects }

GradeDicts ==
    { d \in UNION { [1..n -> SubjectNames \X DictGrades] :
                        n \in 0..MaxSubjects } :
        \A i, j \in 1..Len(d) : d[i][1] = d[j][1] => i = j }

DateValues == {0, 7, 30}
OptionalDates == {<<>>} \cup { <<d>> : d \in DateValues }

StrengthArgs == [ kind : {"strength"}, grade : StrengthGrades, trend : Trends ]

SubjectArgs ==
    [ kind : {"subjects"}, grades : GradeDicts,
      strong_threshold : Thresholds, weak_threshold : Thresholds ]

HoursArgs ==
    [ kind : {"hours"}, weak_subjects : SubjectLists,
      exam_date : OptionalDates, current_date : OptionalDates ]

Call_calculate_strength_score ==
    /\ args.kind = "strength"
    /\ call' = [fn |-> "calculate_strength_score",
                result |-> calculate_strength_score(args.grade, args.trend)]
    /\ UNCHANGED <<flashcards, flashcard_reviews, clock, response, args>>
    /\ UNCHANGED <<academic_reports, subject_performance>>
    /\ UNCHANGED study_plans
    /\ UNCHANGED <<requests, invite_codes, user_relationships>>

\* Both classifications of one grades dict, as analyze_report makes them.
Call_identify_subjects ==
    /\ args.kind = "subjects"
    /\ call' = [fn |-> "identify_subjects",
                strong |-> identify_strong_subjects(args.grades,
                               args.strong_threshold),
                weak |-> identify_weak_subjects(args.grades,
                             args.weak_threshold)]
    /\ UNCHANGED <<flashcards, flashcard_reviews, clock, response, args>>
    /\ UNCHANGED <<academic_reports, subject_performance>>
    /\ UNCHANGED study_plans
    /\ UNCHANGED <<requests, invite_codes, user_relationships>>

Call_calculate_study_hours_needed ==
    /\ args.kind = "hours"
    /\ call' = [fn |-> "calculate_study_hours_needed",
                result |-> calculate_study_hours_needed(args.weak_subjects,
                               args.exam_date, args.current_date, clock)]
    /\ UNCHANGED <<flashcards, flashcard_reviews, clock, response, args>>
    /\ UNCHANGED <<academic_reports, subject_performance>>
    /\ UNCHANGED study_plans
    /\ UNCHANGED <<requests, invite_codes, user_relationships>>

\* Grades of the dicts handed to prioritize_study_topics: A, B, E and "F",
\* which is not on the scale.
PriorityGrades == { <<"A">>, <<"B">>, <<"E">>, <<"F">> }

PriorityDicts ==
    { d \in GradeDicts : \A i \in 1..Len(d) : d[i][2] \in PriorityGrades }

\* Exam weights 0.25 and 2.0, in hundredths.
WeightValues == {25, 200}

\* None, the empty dict, and the dicts that weigh one subject.
OptionalWeights ==
    {<<>>, << <<>> >>}
        \cup { << << <<s, w>> >> >> : s \in SubjectNames, w \in WeightValues }

PrioritizeArgs ==
    [ kind : {"prioritize"}, subjects : SubjectLists, grades : PriorityDicts,
      exam_weights : OptionalWeights ]

Call_prioritize_study_topics ==
    /\ args.kind = "prioritize"
    /\ call' = [fn |-> "prioritize_study_topics",
                result |-> prioritize_study_topics(args.subjects, args.grades,
                               args.exam_weights)]
    /\ UNCHANGED <<flashcards, flashcard_reviews, clock, response, args>>
    /\ UNCHANGED <<academic_reports, subject_performance>>
    /\ UNCHANGED study_plans
    /\ UNCHANGED <<requests, invite_codes, user_relationships>>

AnalyticsArgs ==
    HistoryArgs \cup StrengthArgs \cup SubjectArgs \cup HoursArgs
        \cup PrioritizeArgs

InitAnalytics ==
    /\ flashcards = [id \in CardIds |-> NoCard]
    /\ flashcard_reviews = <<>>
    /\ clock = 0
    /\ response = NoResponse
    /\ args \in AnalyticsArgs
    /\ call = NoCall
    /\ academic_reports = <<>>
    /\ subject_performance = <<>>
    /\ requests = [id \in RequestIds |-> NoRequest]
    /\ invite_codes = <<>>
    /\ user_relationships = <<>>
    /\ study_plans = <<>>

NextAnalytics ==
    \/ Call_analyze_grade_trend
    \/ Call_predict_next_grade
    \/ Call_calculate_strength_score
    \/ Call_identify_subjects
    \/ Call_calculate_study_hours_needed
    \/ Call_prioritize_study_topics

SpecAnalytics == InitAnalytics /\ [][NextAnalytics]_vars

(***************************************************************************)
(* Report ingestion (supabase_db.py, services.py).                         *)
(*                                                                         *)
(* A row of 'academic_reports' keeps the fields the ingestion reads back:  *)
(* report_id, user_id, report_date (in days), grades_json, overall_gpa (in *)
(* hundredths) and processed.  A row of 'subject_performance' has the      *)
(* fields of perf_data.  The database is taken to answer every request.    *)
(***************************************************************************)
MaxReports == 2     \* reports ingested in one behaviour

ReportSubjects == {"Math", "Physics"}
ReportGrades == { <<"A">>, <<"B">> }
ReportDates == {0, 7}

\* The subject names of the model are already stripped and title-cased, so
\* what is left of the normalisation is the table of variations.
normalize_subject_name(subject) ==
    CASE subject = "Math"  -> "Mathematics"
      [] subject = "Maths" -> "Mathematics"
      [] subject = "Eng"   -> "English"
      [] subject = "Bio"   -> "Biology"
      [] OTHER             -> subject

\* round(total_points / total_subjects, 2), in hundredths; the quotients of
\* up to three grade points in tenths are never halfway between hundredths.
calculate_gpa(grades) ==
    LET points == [i \in 1..Len(grades) |-> grade_to_gpa(grades[i][2])]
        total_points == sum(points)
        total_subjects == Len(grades)
    IN  IF grades = <<>> THEN 0
        ELSE (20 * total_points + total_subjects) \div (2 * total_subjects)

\* The rows of a user, report_date descending.  The order of rows that share
\* a date is the database's choice: every such order is a possible answer.
get_user_reports(table, user_id) ==
    LET rows == { r \in Range(table) : r.user_id = user_id }
        n == Cardinality(rows)
    IN  { s \in [1..n -> rows] :
            /\ \A i, j \in 1..n : s[i] = s[j] => i = j
            /\ \A i \in 1..n : \A j \in i..n :
                   s[i].report_date >= s[j].report_date }

\* grade_history[subject]: the subject's numeric grades in reports[:5].
RECURSIVE grade_history(_, _)
grade_history(reports, subject) ==
    IF reports = <<>> THEN <<>>
    ELSE LET grades == Head(reports).grades_json
             rest == grade_history(Tail(reports), subject)
         IN  IF dict_has(grades, subject)
             THEN <<grade_to_numeric(dict_get(grades, subject, <<>>))>>
                      \o rest
             ELSE rest

\* The wrapper of supabase_db.py hands the list of numbers to
\* utils.calculate_strength_score as its 'grade', and grade_to_numeric calls
\* grade.upper(): a list has no such method, so the call raises
\* AttributeError whatever the list holds.
db_calculate_strength_score(subject_grades) == [raised |-> TRUE]

\* subject_grades: grade_history.get(subject, []) with the current grade
\* inserted at index 0; this is the list handed to analyze_grade_trend.
subject_grades(reports, subject, grade) ==
    <<grade_to_numeric(grade)>> \o grade_history(reports, subject)

\* The loop over grades.items() from item i on; an exception leaves the loop
\* and is logged, and the rows written before it stay.
RECURSIVE update_rows(_, _, _, _, _, _)
update_rows(table, reports, user_id, grades, i, now) ==
    IF i > Len(grades) THEN table
    ELSE LET subject == grades[i][1]
             grade == grades[i][2]
             subject_normalized == normalize_subject_name(subject)
             existing == { k \in 1..Len(table) :
                             /\ table[k].user_id = user_id
                             /\ table[k].subject = subject_normalized }
             history == subject_grades(reports, subject, grade)
             trend == analyze_grade_trend(history)
             strength_score == db_calculate_strength_score(history)
             perf_data == [user_id |-> user_id,
                           subject |-> subject_normalized,
                           current_grade |-> grade,
                           grade_numeric |-> grade_to_numeric(grade),
                           trend |-> trend,
                           strength_score |-> strength_score.value,
                           last_updated |-> now]
             written == IF existing # {}
                        THEN [table EXCEPT
                                 ![CHOOSE k \in existing :
                                       \A m \in existing : k <= m] = perf_data]
                        ELSE Append(table, perf_data)
         IN  IF strength_score.raised THEN table
             ELSE update_rows(written, reports, user_id, grades, i + 1, now)

update_subject_performance(table, reports, user_id, grades, now) ==
    update_rows(table, SubSeq(reports, 1, Min(5, Len(reports))),
                user_id, grades, 1, now)

\* ReportService.create_report and create_academic_report.
create_report(user_id, report_date, grades_json) ==
    /\ Len(academic_reports) < MaxReports
    /\ LET report == [report_id |-> Len(academic_reports) + 1,
                      user_id |-> user_id,
                      report_date |-> report_date,
                      grades_json |-> grades_json,
                      overall_gpa |-> calculate_gpa(grades_json),
                      processed |-> TRUE]
       IN  /\ academic_reports' = Append(academic_reports, report)
           /\ \E reports \in get_user_reports(academic_reports', user_id) :
                  subject_performance' =
                      update_subject_performance(subject_performance, reports,
                                                 user_id, grades_json, clock)
    /\ UNCHANGED <<flashcards, flashcard_reviews, clock, response, args, call>>
    /\ UNCHANGED <<requests, invite_codes, user_relationships>>
    /\ UNCHANGED study_plans

ReportDicts ==
    { d \in UNION { [1..n -> ReportSubjects \X ReportGrades] :
                        n \in 0..MaxSubjects } :
        \A i, j \in 1..Len(d) : d[i][1] = d[j][1] => i = j }

NextReports ==
    \E user_id \in UserIds, report_date \in ReportDates,
       grades_json \in ReportDicts :
        create_report(user_id, report_date, grades_json)

SpecReports == Init /\ [][NextReports]_vars

(***************************************************************************)
(* ReportService._update_subject_performance (services.py): the service's  *)
(* own upsert loop.  Each request reads the user's reports once, then for  *)
(* each subject selects the existing record and writes; other requests may *)
(* run between the select and the write.  performance_id is the position   *)
(* of the row in the table (rows are never deleted).                       *)
(***************************************************************************)
\* Grades maps whose raw subject names normalise to the same subject.
PerformanceDicts ==
    { <<<<"Math", <<"A">>>>>>,
      <<<<"Maths", <<"D">>>>>>,
      <<<<"Math", <<"A">>>>, <<"Maths", <<"D">>>>>> }

\* reports = get_user_reports(user_id), before the loop
begin_update_subject_performance(id, user_id, grades) ==
    /\ requests[id] = NoRequest
    /\ \E reports \in get_user_reports(academic_reports, user_id) :
           requests' = [requests EXCEPT ![id] =
               [op |-> "_update_subject_performance", pc |-> "select",
                user_id |-> user_id, grades |-> grades, reports |-> reports,
                i |-> 1, perf_record |-> <<>>]]
    /\ UNCHANGED <<flashcards, flashcard_reviews, clock, response, args, call>>
    /\ UNCHANGED <<academic_reports, subject_performance>>
    /\ UNCHANGED study_plans
    /\ UNCHANGED <<invite_codes, user_relationships>>

\* existing_perf.data[0] if existing_perf.data else None
select_subject_performance(id) ==
    LET r == requests[id]
        subject_normalized == normalize_subject_name(r.grades[r.i][1])
        existing == { k \in 1..Len(subject_performance) :
                        /\ subject_performance[k].user_id = r.user_id
                        /\ subject_performance[k].subject = subject_normalized }
    IN  /\ r.op = "_update_subject_performance"
        /\ r.pc = "select"
        /\ requests' = [requests EXCEPT ![id] =
               [r EXCEPT !.pc = "write",
                         !.perf_record =
                             IF existing = {} THEN <<>>
                             ELSE <<CHOOSE k \in existing :
                                        \A m \in existing : k <= m>>]]
        /\ UNCHANGED <<flashcards, flashcard_reviews, clock, response, args,
                       call>>
        /\ UNCHANGED <<academic_reports, subject_performance>>
        /\ UNCHANGED study_plans
        /\ UNCHANGED <<invite_codes, user_relationships>>

\* perf_data of one subject, from the reports read at the start
service_perf_data(user_id, reports, subject, grade, now) ==
    LET subject_normalized == normalize_subject_name(subject)
        current_numeric == grade_to_numeric(grade)
        history == <<current_numeric>> \o grade_history(reports, subject)
        trend == IF Len(history) > 1 THEN analyze_grade_trend(history)
                 ELSE "stable"
    IN  [user_id |-> user_id,
         subject |-> subject_normalized,
         current_grade |-> grade,
         grade_numeric |-> current_numeric,
         trend |-> trend,
         strength_score |-> calculate_strength_score(grade, trend),
         weakness_areas |-> IF current_numeric < 60
                            THEN <<<<subject_normalized, "fundamentals">>>>
                            ELSE <<>>,
         last_updated |-> now]

\* update(...).eq('performance_id', ...) or insert(...), then the next
\* subject; after the last subject the request is over.
write_subject_performance(id) ==
    LET r == requests[id]
        perf_data == service_perf_data(r.user_id, r.reports, r.grades[r.i][1],
                                       r.grades[r.i][2], clock)
    IN  /\ r.op = "_update_subject_performance"
        /\ r.pc = "write"
        /\ subject_performance' =
               IF r.perf_record # <<>>
               THEN [subject_performance EXCEPT ![r.perf_record[1]] = perf_data]
               ELSE Append(subject_performance, perf_data)
        /\ requests' = [requests EXCEPT ![id] =
               IF r.i = Len(r.grades) THEN NoRequest
               ELSE [r EXCEPT !.pc = "select", !.i = r.i + 1,
                              !.perf_record = <<>>]]
        /\ UNCHANGED <<flashcards, flashcard_reviews, clock, response, args,
                       call>>
        /\ UNCHANGED <<academic_reports, invite_codes, user_relationships>>
        /\ UNCHANGED study_plans

\* The reports table is empty or holds one report ingested earlier.
InitPerformance ==
    /\ flashcards = [id \in CardIds |-> NoCard]
    /\ flashcard_reviews = <<>>
    /\ clock = 0
    /\ response = NoResponse
    /\ args = NoArgs
    /\ call = NoCall
    /\ academic_reports \in
           { <<>>,
             <<[report_id |-> 1, user_id |-> 1, report_date |-> 0,
                grades_json |-> <<<<"Math", <<"D">>>>>>,
                overall_gpa |-> calculate_gpa(<<<<"Math", <<"D">>>>>>),
                processed |-> TRUE]>> }
    /\ subject_performance = <<>>
    /\ requests = [id \in RequestIds |-> NoRequest]
    /\ invite_codes = <<>>
    /\ user_relationships = <<>>
    /\ study_plans = <<>>

NextPerformance ==
    \/ \E id \in RequestIds, user_id \in UserIds, grades \in PerformanceDicts :
           begin_update_subject_performance(id, user_id, grades)
    \/ \E id \in RequestIds : select_subject_performance(id)
    \/ \E id \in RequestIds : write_subject_performance(id)

SpecPerformance == InitPerformance /\ [][NextPerformance]_vars

(***************************************************************************)
(* review_flashcard as the three requests it sends to the database: the    *)
(* select of the card row, the update of the row and the insert of the     *)
(* review record.  Requests of other callers may be served in between.     *)
(***************************************************************************)
MaxInterleaved == 3 \* review requests in one behaviour of interleaved requests

InFlight == { id \in RequestIds : requests[id] # NoRequest }

\* select('*').eq('card_id', card_id).eq('user_id', user_id), then the
\* "Flashcard not found" error or the row kept in the local 'flashcard'
select_flashcard(id, card_id, user_id, correct) ==
    /\ requests[id] = NoRequest
    /\ IF ~flashcard_found(card_id, user_id)
       THEN /\ response' = [status |-> "error",
                            detail |-> "Flashcard not found",
                            card_id |-> card_id, user_id |-> user_id]
            /\ UNCHANGED requests
       ELSE /\ Len(flashcard_reviews) + Cardinality(InFlight) < MaxInterleaved
            /\ requests' = [requests EXCEPT ![id] =
                   [op |-> "review_flashcard", pc |-> "update",
                    card_id |-> card_id, user_id |-> user_id,
                    correct |-> correct, flashcard |-> flashcards[card_id]]]
            /\ UNCHANGED response
    /\ UNCHANGED <<flashcards, flashcard_reviews, clock, args, call>>
    /\ UNCHANGED <<academic_reports, subject_performance>>
    /\ UNCHANGED study_plans
    /\ UNCHANGED <<invite_codes, user_relationships>>

\* update(update_data).eq('card_id', card_id), update_data computed from the
\* row read by the select
update_flashcard(id) ==
    LET r == requests[id]
        upd == update_data(r.flashcard, r.correct, clock)
        row == flashcards[r.card_id]
    IN  /\ r.op = "review_flashcard"
        /\ r.pc = "update"
        /\ flashcards' = [flashcards EXCEPT ![r.card_id] =
               [ is_active        |-> row.is_active,
                 user_id          |-> row.user_id,
                 difficulty       |-> upd.difficulty,
                 times_reviewed   |-> upd.times_reviewed,
                 times_correct    |-> upd.times_correct,
                 last_reviewed    |-> upd.last_reviewed,
                 next_review_date |-> upd.next_review_date ]]
        /\ requests' = [requests EXCEPT ![id] = [r EXCEPT !.pc = "insert"]]
        /\ UNCHANGED <<flashcard_reviews, clock, response, args, call>>
        /\ UNCHANGED <<academic_reports, subject_performance>>
        /\ UNCHANGED study_plans
        /\ UNCHANGED <<invite_codes, user_relationships>>

\* create_flashcard_review(review_data) and the return
insert_flashcard_review(id) ==
    LET r == requests[id]
        mastery == review_mastery(r.flashcard, r.correct)
    IN  /\ r.op = "review_flashcard"
        /\ r.pc = "insert"
        /\ flashcard_reviews' = Append(flashcard_reviews,
               [ card_id |-> r.card_id, user_id |-> r.user_id,
                 correct |-> r.correct, reviewed_at |-> clock ])
        /\ response' = [status |-> "ok", message |-> "Review recorded",
                        card_id |-> r.card_id, user_id |-> r.user_id,
                        mastery_level |-> [num |-> mastery.num * 100,
                                           den |-> mastery.den]]
        /\ requests' = [requests EXCEPT ![id] = NoRequest]
        /\ UNCHANGED <<flashcards, clock, args, call>>
        /\ UNCHANGED <<academic_reports, subject_performance>>
        /\ UNCHANGED study_plans
        /\ UNCHANGED <<invite_codes, user_relationships>>

NextInterleaved ==
    \/ \E id \in CardIds, u \in UserIds, d \in Difficulties :
           generate_flashcards(id, u, d)
    \/ \E id \in RequestIds, card_id \in CardIds, u \in UserIds,
          c \in BOOLEAN :
           select_flashcard(id, card_id, u, c)
    \/ \E id \in RequestIds : update_flashcard(id)
    \/ \E id \in RequestIds : insert_flashcard_review(id)

SpecInterleaved == Init /\ [][NextInterleaved]_vars

(***************************************************************************)
(* Invite codes (services.py, InviteService).  redeem_code is modelled as  *)
(* the requests it sends to the database, in the order of the code; other  *)
(* requests may be served in between.  The users table is not written by   *)
(* these operations: it holds a student whose user_type is stored as       *)
(* 'STUDENT', one whose user_type is stored as 'student' (the value the    *)
(* registration endpoint writes) and a teacher.                            *)
(***************************************************************************)
MaxCodes == 1       \* invite codes created in one behaviour
MaxDay == 8         \* last day of the behaviours with invite codes

users ==
    <<[user_id |-> 1, user_type |-> "STUDENT"],
      [user_id |-> 2, user_type |-> "student"],
      [user_id |-> 3, user_type |-> "TEACHER"]>>

StudentIds == {1, 2}
GuardianIds == {3}

\* The members of the enumeration UserType, by value.
UserType == {"student", "teacher", "parent", "admin"}

\* Codes that generate_code may return, and what a request may send.
Codes == {"AB12", "CD34"}
CodeInputs == {"AB12", "ab12", "CD34", "ZZ99"}

\* code.upper()
upper_code(code) == IF code = "ab12" THEN "AB12" ELSE code

\* create_invite_code: the code is drawn until none of the table has it; the
\* code column is unique.
create_invite_code(creator_id, creator_type) ==
    IF creator_type \notin {"teacher", "parent"}
    THEN /\ response' = [status |-> "error",
                 detail |-> "Only teachers and parents can create invite codes"]
         /\ UNCHANGED <<flashcards, flashcard_reviews, clock, args, call>>
         /\ UNCHANGED <<academic_reports, subject_performance>>
         /\ UNCHANGED study_plans
         /\ UNCHANGED <<requests, invite_codes, user_relationships>>
    ELSE /\ Len(invite_codes) < MaxCodes
         /\ \E code \in Codes :
                /\ \A k \in 1..Len(invite_codes) : invite_codes[k].code # code
                /\ invite_codes' = Append(invite_codes,
                       [code |-> code,
                        creator_id |-> creator_id,
                        creator_type |-> creator_type,
                        expires_at |-> clock + 7,
                        used |-> FALSE,
                        used_by |-> <<>>])
         /\ UNCHANGED <<flashcards, flashcard_reviews, clock, response, args,
                        call>>
         /\ UNCHANGED <<academic_reports, subject_performance>>
         /\ UNCHANGED study_plans
         /\ UNCHANGED <<requests, user_relationships>>

\* The error a redemption raises; the request is over.
redeem_error(id, detail) ==
    /\ response' = [status |-> "error", detail |-> detail]
    /\ requests' = [requests EXCEPT ![id] = NoRequest]
    /\ UNCHANGED <<invite_codes, user_relationships>>

\* The select of the invite, the checks on it, the select of the student and
\* the check of the user type.
select_invite(id, code, student_id) ==
    LET found == { k \in 1..Len(invite_codes) :
                     invite_codes[k].code = upper_code(code) }
        invite == invite_codes[CHOOSE k \in found : TRUE]
        student == { k \in 1..Len(users) : users[k].user_id = student_id }
    IN  /\ requests[id] = NoRequest
        /\ IF found = {}
           THEN redeem_error(id, "Invalid invite code")
           ELSE IF invite.used
           THEN redeem_error(id, "This invite code has already been used")
           ELSE IF invite.expires_at < clock
           THEN redeem_error(id, "This invite code has expired")
           ELSE IF \/ student = {}
                   \/ users[CHOOSE k \in student : TRUE].user_type # "STUDENT"
           THEN redeem_error(id, "Only students can redeem invite codes")
           ELSE /\ requests' = [requests EXCEPT ![id] =
                       [op |-> "redeem_code", pc |-> "existing",
                        code |-> upper_code(code), student_id |-> student_id,
                        invite |-> invite]]
                /\ UNCHANGED <<response, invite_codes, user_relationships>>
        /\ UNCHANGED <<flashcards, flashcard_reviews, clock, args, call>>
        /\ UNCHANGED <<academic_reports, subject_performance>>
        /\ UNCHANGED study_plans

\* The select of an existing relationship and its check.
select_relationship(id) ==
    LET r == requests[id]
        existing_rel == { k \in 1..Len(user_relationships) :
            /\ user_relationships[k].guardian_id = r.invite.creator_id
            /\ user_relationships[k].student_id = r.student_id }
    IN  /\ r.op = "redeem_code"
        /\ r.pc = "existing"
        /\ IF existing_rel # {}
           THEN redeem_error(id,
                    "You are already linked to this teacher/parent")
           ELSE /\ requests' = [requests EXCEPT ![id] =
                                   [r EXCEPT !.pc = "insert"]]
                /\ UNCHANGED <<response, invite_codes, user_relationships>>
        /\ UNCHANGED <<flashcards, flashcard_reviews, clock, args, call>>
        /\ UNCHANGED <<academic_reports, subject_performance>>
        /\ UNCHANGED study_plans

\* The insert of the relationship.
insert_relationship(id) ==
    LET r == requests[id]
    IN  /\ r.op = "redeem_code"
        /\ r.pc = "insert"
        /\ user_relationships' = Append(user_relationships,
               [relationship_id |-> Len(user_relationships) + 1,
                guardian_id |-> r.invite.creator_id,
                student_id |-> r.student_id,
                relationship_type |->
                    IF r.invite.creator_type = "TEACHER"
                    THEN "teacher-student" ELSE "parent-child"])
        /\ requests' = [requests EXCEPT ![id] = [r EXCEPT !.pc = "mark"]]
        /\ UNCHANGED <<flashcards, flashcard_reviews, clock, response, args,
                       call>>
        /\ UNCHANGED <<academic_reports, subject_performance, invite_codes>>
        /\ UNCHANGED study_plans

\* update({'used': True, 'used_by': student_id}).eq('code', code.upper())
\* and the return of the relationship.
mark_invite_used(id) ==
    LET r == requests[id]
    IN  /\ r.op = "redeem_code"
        /\ r.pc = "mark"
        /\ invite_codes' = [k \in 1..Len(invite_codes) |->
               IF invite_codes[k].code = r.code
               THEN [invite_codes[k] EXCEPT !.used = TRUE,
                                            !.used_by = <<r.student_id>>]
               ELSE invite_codes[k]]
        /\ response' = [status |-> "ok", student_id |-> r.student_id,
                        guardian_id |-> r.invite.creator_id]
        /\ requests' = [requests EXCEPT ![id] = NoRequest]
        /\ UNCHANGED <<flashcards, flashcard_reviews, clock, args, call>>
        /\ UNCHANGED <<academic_reports, subject_performance>>
        /\ UNCHANGED study_plans
        /\ UNCHANGED user_relationships

\* Days pass between requests: a week (a code of day 0 expires at the end
\* of day 7) or a week and a day.
Wait(days) ==
    /\ clock + days <= MaxDay
    /\ clock' = clock + days
    /\ UNCHANGED <<flashcards, flashcard_reviews, response, args, call>>
    /\ UNCHANGED <<academic_reports, subject_performance>>
    /\ UNCHANGED study_plans
    /\ UNCHANGED <<requests, invite_codes, user_relationships>>

NextInvite ==
    \/ \E creator_id \in GuardianIds, creator_type \in UserType :
           create_invite_code(creator_id, creator_type)
    \/ \E id \in RequestIds, code \in CodeInputs,
          student_id \in StudentIds \cup GuardianIds :
           select_invite(id, code, student_id)
    \/ \E id \in RequestIds : select_relationship(id)
    \/ \E id \in RequestIds : insert_relationship(id)
    \/ \E id \in RequestIds : mark_invite_used(id)
    \/ \E days \in {7, 8} : Wait(days)

SpecInvite == Init /\ [][NextInvite]_vars

(***************************************************************************)
(* Properties.                                                             *)
(***************************************************************************)
Tiers == {"easy", "medium", "hard"}

\* The step is a recorded review of card id.
ReviewedStep(id) ==
    /\ Len(flashcard_reviews') = Len(flashcard_reviews) + 1
    /\ flashcard_reviews'[Len(flashcard_reviews')].card_id = id

\* The answer recorded by the step.
StepCorrect == flashcard_reviews'[Len(flashcard_reviews')].correct

\* C1: calculate_next_review_date with correct = false returns
\* last_reviewed + table[0] days for every prior review count, counts of 5
\* and more included.
C1_IncorrectResetsInterval ==
    (call.fn = "calculate_next_review_date" /\ ~args.correct)
        => call.result = args.last_reviewed + interval_list(args.difficulty)[1]

\* C2: a correct review of a card whose stored times_reviewed is k < 5
\* schedules the next review table[difficulty][k] days after last_reviewed,
\* k being the count before this review's increment.
C2_SchedulerGetsPriorCount ==
    [][\A id \in CardIds :
          (/\ ReviewedStep(id)
           /\ StepCorrect
           /\ flashcards[id].times_reviewed < 5)
          => flashcards'[id].next_review_date
                 = flashcards'[id].last_reviewed
                   + interval_list(flashcards[id].difficulty)
                         [flashcards[id].times_reviewed + 1]]_vars

\* C3: every review adds exactly 1 to times_reviewed and adds 1 to
\* times_correct iff the answer was correct, no other step changes a
\* counter, a new card starts at 0/0, and 0 <= times_correct <=
\* times_reviewed always.
C3_Counters ==
    /\ [](\A id \in CardIds : flashcards[id] # NoCard =>
            /\ 0 <= flashcards[id].times_correct
            /\ flashcards[id].times_correct <= flashcards[id].times_reviewed)
    /\ [][\A id \in CardIds :
            /\ (flashcards[id] = NoCard /\ flashcards'[id] # NoCard) =>
                   /\ flashcards'[id].times_reviewed = 0
                   /\ flashcards'[id].times_correct = 0
            /\ flashcards[id] # NoCard =>
                   /\ flashcards'[id] # NoCard
                   /\ flashcards'[id].times_reviewed
                          = flashcards[id].times_reviewed
                            + (IF ReviewedStep(id) THEN 1 ELSE 0)
                   /\ flashcards'[id].times_correct
                          = flashcards[id].times_correct
                            + (IF ReviewedStep(id) /\ StepCorrect
                               THEN 1 ELSE 0)]_vars

\* An easy card after four recorded reviews, one of them correct.
C3_Witness ==
    \E id \in CardIds :
        /\ flashcards[id] # NoCard
        /\ flashcards[id].times_reviewed = 4
        /\ flashcards[id].times_correct = 1
        /\ flashcards[id].difficulty = "easy"
        /\ Len(flashcard_reviews) = 4

\* C4: with correct = true and prior count i the interval is table[i] for
\* i < 5 and the last entry (easy 30, medium 21, hard 14) for i >= 5, the
\* tables being easy [1,3,7,14,30], medium [1,2,5,10,21], hard [1,1,3,7,14];
\* medium with times_reviewed = 2 gives last_reviewed + 5.
C4_CorrectInterval ==
    (call.fn = "calculate_next_review_date" /\ args.correct
        /\ args.difficulty \in Tiers)
    => LET table == IF args.difficulty = "easy" THEN <<1, 3, 7, 14, 30>>
                    ELSE IF args.difficulty = "medium"
                    THEN <<1, 2, 5, 10, 21>>
                    ELSE <<1, 1, 3, 7, 14>>
           last == IF args.difficulty = "easy" THEN 30
                   ELSE IF args.difficulty = "medium" THEN 21 ELSE 14
           i == args.times_reviewed
       IN  /\ i < 5 => call.result = args.last_reviewed + table[i + 1]
           /\ i >= 5 => call.result = args.last_reviewed + last
           /\ (args.difficulty = "medium" /\ i = 2)
                  => call.result = args.last_reviewed + 5

C4_Witness ==
    /\ call.fn = "calculate_next_review_date"
    /\ args.correct
    /\ args.difficulty = "medium"
    /\ args.times_reviewed = 2
    /\ call.result = args.last_reviewed + 5

\* C5: for times_reviewed >= 3 and 0 <= times_correct <= times_reviewed,
\* adjust_difficulty promotes one tier (easy -> medium -> hard) when
\* 5 * correct >= 4 * reviewed and the tier is not hard, otherwise demotes
\* one tier when 2 * correct < reviewed and the tier is not easy, and
\* otherwise returns the tier unchanged.
C5_AdjustDifficulty ==
    (/\ call.fn = "adjust_difficulty"
     /\ args.difficulty \in Tiers
     /\ args.times_reviewed >= 3
     /\ args.times_correct <= args.times_reviewed)
    => LET d == args.difficulty
           high == 5 * args.times_correct >= 4 * args.times_reviewed
           low == 2 * args.times_correct < args.times_reviewed
       IN  call.result =
               IF high /\ d = "easy" THEN "medium"
               ELSE IF high /\ d = "medium" THEN "hard"
               ELSE IF low /\ d = "hard" THEN "medium"
               ELSE IF low /\ d = "medium" THEN "easy"
               ELSE d

\* Accuracy exactly 0.8 promotes medium to hard.
C5_Witness ==
    /\ call.fn = "adjust_difficulty"
    /\ args.difficulty = "medium"
    /\ args.times_reviewed = 5
    /\ args.times_correct = 4
    /\ call.result = "hard"

\* C6: adjust_difficulty returns the current difficulty unchanged whenever
\* times_reviewed < 3, for every times_correct and every difficulty string.
C6_NoAdjustBelowThree ==
    (call.fn = "adjust_difficulty" /\ args.times_reviewed < 3)
        => call.result = args.difficulty

C6_Witness ==
    /\ call.fn = "adjust_difficulty"
    /\ args.times_reviewed = 2
    /\ args.times_correct = 2
    /\ args.difficulty = "medium"
    /\ call.result = "medium"

\* C7: calculate_mastery_level is 0 when times_reviewed = 0, is exactly 1
\* for (n, n, "easy") with n > 0, equals min(1, (correct / reviewed) * m)
\* with m = 1.0 easy, 0.9 medium, 0.8 hard, and lies in [0, 1] whenever
\* 0 <= times_correct <= times_reviewed.
C7_Mastery ==
    (call.fn = "calculate_mastery_level" /\ args.difficulty \in Tiers)
    => LET r == args.times_reviewed
           c == args.times_correct
           m == IF args.difficulty = "easy" THEN 10
                ELSE IF args.difficulty = "medium" THEN 9 ELSE 8
           num == call.result.num
           den == call.result.den
       IN  /\ den > 0
           /\ r = 0 => num = 0
           /\ (r > 0 /\ c = r /\ args.difficulty = "easy") => num = den
           /\ r > 0 => IF c * m >= 10 * r THEN num = den
                       ELSE num * 10 * r = c * m * den
           /\ c <= r => (0 <= num /\ num <= den)

\* Two of three correct on a hard card: 2/3 * 0.8 = 16/30.
C7_Witness ==
    /\ call.fn = "calculate_mastery_level"
    /\ args.difficulty = "hard"
    /\ args.times_reviewed = 3
    /\ args.times_correct = 2
    /\ call.result.num * 30 = 16 * call.result.den

\* C8: a difficulty string that is not easy, medium or hard is treated as
\* medium: the mastery and the next review date are those of medium, and
\* adjust_difficulty returns what it returns for medium, except that where
\* medium would stay medium the string itself is returned.
C8_UnknownIsMedium ==
    (args.kind = "flashcard" /\ args.difficulty \notin Tiers)
    => /\ call.fn = "calculate_mastery_level" =>
              call.result = calculate_mastery_level(args.times_reviewed,
                                args.times_correct, "medium")
       /\ call.fn = "calculate_next_review_date" =>
              call.result
                  = calculate_next_review_date(args.last_reviewed, "medium",
                        args.correct, args.times_reviewed)
       /\ call.fn = "adjust_difficulty" =>
              LET as_medium == adjust_difficulty("medium",
                                   args.times_reviewed, args.times_correct)
              IN  call.result = IF as_medium = "medium" THEN args.difficulty
                                ELSE as_medium

\* An unknown difficulty, third review, correct: the medium interval 10.
C8_Witness ==
    /\ call.fn = "calculate_next_review_date"
    /\ args.difficulty = "expert"
    /\ args.correct
    /\ args.times_reviewed = 3
    /\ call.result = args.last_reviewed + 10

\* C9: numeric_to_grade(grade_to_numeric(g)) = g for each of the twelve
\* letter grades.
C9_RoundTrip ==
    (call.fn = "numeric_to_grade" /\ args.grade \in LetterGrades)
        => call.result = args.grade

C9_Witness ==
    /\ call.fn = "numeric_to_grade"
    /\ args.grade = <<"B">>
    /\ call.arg = 90
    /\ call.result = <<"B">>

\* s is the letter grade g in some letter case, with whitespace around it.
IsGradeForm(s, g) ==
    \E i \in 1..(Len(s) + 1) :
        /\ i + Len(g) - 1 <= Len(s)
        /\ \A k \in 1..(i - 1) : IsSpace(s[k])
        /\ \A k \in (i + Len(g))..Len(s) : IsSpace(s[k])
        /\ \A k \in 1..Len(g) :
               \/ s[i + k - 1] = g[k]
               \/ /\ g[k] = "A" /\ s[i + k - 1] = "a"
               \/ /\ g[k] = "B" /\ s[i + k - 1] = "b"
               \/ /\ g[k] = "C" /\ s[i + k - 1] = "c"
               \/ /\ g[k] = "D" /\ s[i + k - 1] = "d"
               \/ /\ g[k] = "E" /\ s[i + k - 1] = "e"

\* C10: grade_to_numeric and grade_to_gpa map a letter grade written in any
\* letter case, with or without surrounding whitespace, to its table value
\* (A = 12 ... E = 1, and A = 4.0 ... E = 0.0), and every other string to 0.
C10_GradeScaleTotal ==
    (call.fn \in {"grade_to_numeric", "grade_to_gpa"})
    => LET ordinal == [g \in LetterGrades |->
                   CASE g = <<"A">> -> 120 [] g = <<"A", "-">> -> 110
                     [] g = <<"B", "+">> -> 100 [] g = <<"B">> -> 90
                     [] g = <<"B", "-">> -> 80 [] g = <<"C", "+">> -> 70
                     [] g = <<"C">> -> 60 [] g = <<"C", "-">> -> 50
                     [] g = <<"D", "+">> -> 40 [] g = <<"D">> -> 30
                     [] g = <<"D", "-">> -> 20 [] g = <<"E">> -> 10]
           gpa == [g \in LetterGrades |->
                   CASE g = <<"A">> -> 40 [] g = <<"A", "-">> -> 37
                     [] g = <<"B", "+">> -> 33 [] g = <<"B">> -> 30
                     [] g = <<"B", "-">> -> 27 [] g = <<"C", "+">> -> 23
                     [] g = <<"C">> -> 20 [] g = <<"C", "-">> -> 17
                     [] g = <<"D", "+">> -> 13 [] g = <<"D">> -> 10
                     [] g = <<"D", "-">> -> 7 [] g = <<"E">> -> 0]
           table == IF call.fn = "grade_to_numeric" THEN ordinal ELSE gpa
       IN  /\ \A g \in LetterGrades :
                  IsGradeForm(args.grade, g) => call.result = table[g]
           /\ (\A g \in LetterGrades : ~IsGradeForm(args.grade, g))
                  => call.result = 0

\* " a-" is A-.
C10_Witness ==
    /\ call.fn = "grade_to_numeric"
    /\ args.grade = <<" ", "a", "-">>
    /\ call.result = 110

\* The sum of the first i elements of y, and of (k - 1) * y[k] over them.
RECURSIVE PrefixSum(_, _)
PrefixSum(y, i) == IF i = 0 THEN 0 ELSE y[i] + PrefixSum(y, i - 1)

RECURSIVE PrefixWeightedSum(_, _)
PrefixWeightedSum(y, i) ==
    IF i = 0 THEN 0 ELSE (i - 1) * y[i] + PrefixWeightedSum(y, i - 1)

\* C11: analyze_grade_trend returns stable for a history of length 0 or 1;
\* for n >= 2, with slope = (n*Sxy - Sx*Sy) / (n*Sxx - Sx^2) over x = 0..n-1,
\* it returns improving iff slope > 0.1, declining iff slope < -0.1 and
\* stable otherwise, so slopes of exactly 0.1 and -0.1 are stable.
C11_TrendClassification ==
    call.fn = "analyze_grade_trend"
    => LET y == args.history
           n == Len(y)
           Sx == (n * (n - 1)) \div 2
           Sxx == ((n - 1) * n * (2 * n - 1)) \div 6
           Sy == PrefixSum(y, n)
           Sxy == PrefixWeightedSum(y, n)
           num == n * Sxy - Sx * Sy          \* tenths
           den == n * Sxx - Sx * Sx
       IN  /\ n < 2 => call.result = "stable"
           /\ n >= 2 =>
                  /\ den > 0
                  /\ call.result = "improving" <=> num > den
                  /\ call.result = "declining" <=> num < -den
                  /\ call.result = "stable" <=> (-den <= num /\ num <= den)

\* [6, 6, 7, 6] has slope exactly 0.1.
C11_Witness ==
    /\ call.fn = "analyze_grade_trend"
    /\ args.history = <<60, 60, 70, 60>>
    /\ call.result = "stable"

\* C12: predict_next_grade returns 0.0 for an empty history and the element
\* itself for a one-element history; for n >= 2, with recent_avg the mean
\* of the last min(3, n) elements, it returns min(12.0, recent_avg + 0.5)
\* when the trend is improving, max(1.0, recent_avg - 0.3) when declining
\* and recent_avg when stable.
C12_Prediction ==
    call.fn = "predict_next_grade"
    => LET y == args.history
           n == Len(y)
           num == call.result.num
           den == call.result.den
           k == IF n >= 3 THEN 3 ELSE n
           s == IF n >= 3 THEN y[n - 2] + y[n - 1] + y[n]
                ELSE IF n = 2 THEN y[1] + y[2] ELSE 0
           trend == analyze_grade_trend(y)
       IN  /\ den > 0
           /\ n = 0 => num = 0
           /\ n = 1 => num = y[1] * den
           /\ (n >= 2 /\ trend = "improving") =>
                  IF s + 5 * k <= 120 * k THEN num * k = (s + 5 * k) * den
                  ELSE num = 120 * den
           /\ (n >= 2 /\ trend = "declining") =>
                  IF s - 3 * k >= 10 * k THEN num * k = (s - 3 * k) * den
                  ELSE num = 10 * den
           /\ (n >= 2 /\ trend = "stable") => num * k = s * den

\* [6, 12, 12, 12] is improving with recent average 12: capped at 12.0.
C12_Witness ==
    /\ call.fn = "predict_next_grade"
    /\ args.history = <<60, 120, 120, 120>>
    /\ call.result.num = 120 * call.result.den

\* C13: for every history of at least 2 values produced by grade_to_numeric
\* (0.0 for an unknown grade included), predict_next_grade lies in
\* [1.0, 12.0].
C13_PredictionInGradeRange ==
    (call.fn = "predict_next_grade" /\ Len(args.history) >= 2)
    => /\ 10 * call.result.den <= call.result.num
       /\ call.result.num <= 120 * call.result.den

\* C13 as amended: for every history of at least 2 values of valid letter
\* grades (1.0 to 12.0), predict_next_grade lies in [1.0, 12.0].
C13_PredictionInRangeForValidGrades ==
    (/\ call.fn = "predict_next_grade"
     /\ Len(args.history) >= 2
     /\ \A i \in 1..Len(args.history) : args.history[i] >= 10)
    => /\ 10 * call.result.den <= call.result.num
       /\ call.result.num <= 120 * call.result.den

\* [6, 1, 1, 1] is declining with recent average 1.0: raised to 1.0.
C13_Witness ==
    /\ call.fn = "predict_next_grade"
    /\ args.history = <<60, 10, 10, 10>>
    /\ call.result.num = 10 * call.result.den

\* C14: for the history [6.0, 7.0, 9.0] analyze_grade_trend returns
\* improving and predict_next_grade returns 7.67 to two decimals.
C14_Scenario767 ==
    args.kind = "history" /\ args.history = <<60, 70, 90>>
    => /\ call.fn = "analyze_grade_trend" => call.result = "improving"
       /\ call.fn = "predict_next_grade" =>
              /\ 7665 * call.result.den <= 100 * call.result.num
              /\ 100 * call.result.num < 7675 * call.result.den

\* C14 as amended: for the history [6.0, 7.0, 9.0] analyze_grade_trend
\* returns improving and predict_next_grade returns 7.83 to two decimals,
\* this being min(12.0, mean([6, 7, 9]) + 0.5) = 22/3 + 1/2.
C14_Scenario783 ==
    args.kind = "history" /\ args.history = <<60, 70, 90>>
    => /\ call.fn = "analyze_grade_trend" => call.result = "improving"
       /\ call.fn = "predict_next_grade" =>
              /\ 7825 * call.result.den <= 100 * call.result.num
              /\ 100 * call.result.num < 7835 * call.result.den
              /\ 6 * call.result.num = 470 * call.result.den

C14_Witness ==
    /\ call.fn = "predict_next_grade"
    /\ args.history = <<60, 70, 90>>
    /\ call.result.den = 3
    /\ call.result.num = 235

\* C15: calculate_strength_score(grade, trend) is (ordinal(grade) / 12) * 100,
\* plus 5 if the trend is improving, minus 5 if it is declining, clamped to
\* [0, 100]; it is in [0, 100] for every grade string and every trend, and
\* it is 83.33 to two decimals for ("B+", "stable").
C15_StrengthScore ==
    call.fn = "calculate_strength_score"
    => LET ordinal == grade_to_numeric(args.grade)        \* tenths
           bump == IF args.trend = "improving" THEN 5
                   ELSE IF args.trend = "declining" THEN -5 ELSE 0
           \* 12 times the unclamped score: ordinal/120 * 100 * 12 + 12*bump
           twelve == 10 * ordinal + 12 * bump
           num == call.result.num
           den == call.result.den
       IN  /\ den > 0
           /\ 0 <= num /\ num <= 100 * den
           /\ twelve < 0 => num = 0
           /\ twelve > 1200 => num = 100 * den
           /\ (0 <= twelve /\ twelve <= 1200) => 12 * num = twelve * den
           /\ (args.grade = <<"B", "+">> /\ args.trend = "stable") =>
                  /\ 83325 * den <= 1000 * num
                  /\ 1000 * num < 83335 * den

\* An improving A: 100 + 5 is clamped to 100.
C15_Witness ==
    /\ call.fn = "calculate_strength_score"
    /\ args.grade = <<"A">>
    /\ args.trend = "improving"
    /\ call.result.num = 100 * call.result.den

\* C16: identify_strong_subjects(grades, t) holds a subject iff
\* ordinal(grade) >= ordinal(t) and identify_weak_subjects(grades, t) holds
\* it iff ordinal(grade) < ordinal(t); with one threshold for both the two
\* results are disjoint and cover the dict, and with strong threshold B+ and
\* weak threshold B the subjects graded exactly B are in neither.
C16_StrongWeak ==
    call.fn = "identify_subjects"
    => LET strong == Range(call.strong)
           weak == Range(call.weak)
           keys == { args.grades[i][1] : i \in 1..Len(args.grades) }
           ts == grade_to_numeric(args.strong_threshold)
           tw == grade_to_numeric(args.weak_threshold)
       IN  /\ strong \subseteq keys /\ weak \subseteq keys
           /\ \A i \in 1..Len(args.grades) :
                  LET subject == args.grades[i][1]
                      ordinal == grade_to_numeric(args.grades[i][2])
                  IN  /\ subject \in strong <=> ordinal >= ts
                      /\ subject \in weak <=> ordinal < tw
                      /\ (/\ args.strong_threshold = <<"B", "+">>
                          /\ args.weak_threshold = <<"B">>
                          /\ ordinal = 90)
                         => (subject \notin strong /\ subject \notin weak)
           /\ args.strong_threshold = args.weak_threshold =>
                  /\ strong \cap weak = {}
                  /\ strong \cup weak = keys

\* Strong from B+, weak below B: Math graded B is in neither list.
C16_Witness ==
    /\ call.fn = "identify_subjects"
    /\ args.strong_threshold = <<"B", "+">>
    /\ args.weak_threshold = <<"B">>
    /\ args.grades = << <<"Math", <<"B">> >>, <<"Eng", <<"A">> >> >>
    /\ call.strong = <<"Eng">>
    /\ call.weak = <<>>

\* C17: calculate_study_hours_needed returns one entry per weak subject,
\* every value being the fixed weekly rate of 2.5 hours, independent of
\* exam_date and of the days available.
C17_FlatWeeklyRate ==
    call.fn = "calculate_study_hours_needed"
    => /\ DOMAIN call.result = Range(args.weak_subjects)
       /\ \A s \in DOMAIN call.result :
              10 * call.result[s].num = 25 * call.result[s].den

\* C17 as amended: one entry per weak subject, every value being
\* 2.5 * days_available / 7 hours, where days_available is the number of
\* days from current_date to exam_date, or 90 when exam_date is absent or
\* not after current_date; the value does not depend on the number of
\* subjects.
C17_HoursOverAvailableDays ==
    call.fn = "calculate_study_hours_needed"
    => LET current == IF args.current_date = <<>> THEN clock
                      ELSE args.current_date[1]
           days == IF args.exam_date # <<>> /\ args.exam_date[1] > current
                   THEN args.exam_date[1] - current
                   ELSE 90
       IN  /\ DOMAIN call.result = Range(args.weak_subjects)
           /\ \A s \in DOMAIN call.result :
                  /\ call.result[s].den > 0
                  /\ 14 * call.result[s].num = 5 * days * call.result[s].den

\* 30 days to the exam: 2.5 * 30 / 7 hours for each of two subjects.
C17_Witness ==
    /\ call.fn = "calculate_study_hours_needed"
    /\ args.weak_subjects = <<"Math", "Eng">>
    /\ args.exam_date = <<30>>
    /\ args.current_date = <<0>>
    /\ call.result["Math"] = [num |-> 750, den |-> 70]
    /\ call.result["Eng"] = [num |-> 750, den |-> 70]

\* The score the claim gives a subject: floor((12 - ordinal) * w * 10) with
\* w the subject's exam weight if provided and 1 otherwise.
ClaimedScore(subject) ==
    LET ordinal == grade_to_numeric(dict_get(args.grades, subject, <<"E">>))
        weights == IF args.exam_weights = <<>> THEN <<>>
                   ELSE args.exam_weights[1]
        w == IF dict_has(weights, subject) THEN dict_get(weights, subject, 100)
             ELSE 100
    IN  ((120 - ordinal) * w) \div 100

\* C18: prioritize_study_topics returns one (subject, score) pair per input
\* subject with score = floor((12 - ordinal(grade)) * w * 10), sorted by
\* score in non-increasing order, subjects with equal scores keeping their
\* relative order from the input list.
C18_Prioritize ==
    call.fn = "prioritize_study_topics"
    => LET n == Len(args.subjects)
           r == call.result
       IN  /\ Len(r) = n
           /\ \A i \in 1..(n - 1) : r[i][2] >= r[i + 1][2]
           /\ \E pi \in [1..n -> 1..n] :
                  /\ \A i, j \in 1..n : pi[i] = pi[j] => i = j
                  /\ \A i \in 1..n :
                         /\ r[i][1] = args.subjects[pi[i]]
                         /\ r[i][2] = ClaimedScore(args.subjects[pi[i]])
                  /\ \A i, j \in 1..n :
                         (i < j /\ r[i][2] = r[j][2]) => pi[i] < pi[j]

\* Eng then Math, both graded B, Math weighted 0.25: Eng scores 30, Math
\* floor(7.5) = 7.
C18_Witness ==
    /\ call.fn = "prioritize_study_topics"
    /\ args.subjects = <<"Math", "Eng">>
    /\ args.grades = << <<"Math", <<"B">> >>, <<"Eng", <<"B">> >> >>
    /\ args.exam_weights = << << <<"Math", 25>> >> >>
    /\ call.result = << <<"Eng", 30>>, <<"Math", 7>> >>

\* C19: without exam weights, of any two input subjects the one with the
\* strictly lower grade (a missing subject counting as E, an unrecognized
\* grade as 0.0) is ranked strictly before the one with the higher grade.
C19_LowerGradeFirst ==
    (call.fn = "prioritize_study_topics" /\ args.exam_weights = <<>>)
    => LET r == call.result
           ordinal(subject) ==
               grade_to_numeric(dict_get(args.grades, subject, <<"E">>))
       IN  \A a, b \in Range(args.subjects) :
               ordinal(a) < ordinal(b)
               => /\ \E i \in 1..Len(r) : r[i][1] = a
                  /\ \E j \in 1..Len(r) : r[j][1] = b
                  /\ \A i, j \in 1..Len(r) :
                         (r[i][1] = a /\ r[j][1] = b) => i < j

\* prioritize(["Eng", "Math"], {"Math": "E", "Eng": "A"}) ranks Math first.
C19_Witness ==
    /\ call.fn = "prioritize_study_topics"
    /\ args.exam_weights = <<>>
    /\ args.subjects = <<"Eng", "Math">>
    /\ args.grades = << <<"Math", <<"E">> >>, <<"Eng", <<"A">> >> >>
    /\ call.result = << <<"Math", 110>>, <<"Eng", 0>> >>


\* C20: after a report is ingested, every subject of its grades map has a
\* subject-performance record for (user, normalised subject) that carries the
\* report's grade, its numeric value, a trend among improving, declining and
\* stable, and a strength score between 0 and 100.  Stated for the report
\* ingested last.
C20_IngestionWritesPerformance ==
    academic_reports # <<>> =>
        LET report == academic_reports[Len(academic_reports)]
            G == report.grades_json
        IN  \A i \in 1..Len(G) :
                \E p \in Range(subject_performance) :
                    /\ p.user_id = report.user_id
                    /\ p.subject = normalize_subject_name(G[i][1])
                    /\ p.current_grade = G[i][2]
                    /\ p.grade_numeric = grade_to_numeric(G[i][2])
                    /\ p.trend \in {"improving", "declining", "stable"}
                    /\ 0 <= p.strength_score.num
                    /\ p.strength_score.num <= 100 * p.strength_score.den

OldestFirstReports(user_id, subject) ==
    LET rows == { r \in Range(academic_reports) :
                    r.user_id = user_id /\ dict_has(r.grades_json, subject) }
        n == Cardinality(rows)
        newest == academic_reports[Len(academic_reports)]
    IN  { s \in [1..n -> rows] :
            /\ \A i, j \in 1..n : s[i] = s[j] => i = j
            /\ \A i \in 1..n : \A j \in i..n :
                   s[i].report_date <= s[j].report_date
            /\ s[n] = newest }

\* The grades of a user's reports for a subject rise (or fall, for step -1)
\* by at least one grade value from each report date to the next, and the
\* reports were ingested in the order of their dates.
GradesStep(user_id, subject, step) ==
    LET ids == { k \in 1..Len(academic_reports) :
                   /\ academic_reports[k].user_id = user_id
                   /\ dict_has(academic_reports[k].grades_json, subject) }
        value(k) == grade_to_numeric(
                        dict_get(academic_reports[k].grades_json, subject, <<>>))
    IN  /\ Cardinality(ids) >= 2
        /\ \A k, m \in ids :
               k < m => /\ academic_reports[k].report_date
                             < academic_reports[m].report_date
                        /\ step * (value(m) - value(k)) > 0

\* C22: the history that ingesting a report hands to analyze_grade_trend is
\* oldest-first with each report's grade for the subject exactly once and the
\* new grade last, so grades rising from date to date give the trend
\* improving and grades falling from date to date give declining.
C22_HistoryOldestFirst ==
    academic_reports # <<>> =>
        LET report == academic_reports[Len(academic_reports)]
            G == report.grades_json
        IN  \A reports \in get_user_reports(academic_reports, report.user_id) :
            \A i \in 1..Len(G) :
                LET handed == subject_grades(
                                  SubSeq(reports, 1, Min(5, Len(reports))),
                                  G[i][1], G[i][2])
                IN  /\ \E s \in OldestFirstReports(report.user_id, G[i][1]) :
                           handed = [k \in 1..Len(s) |->
                               grade_to_numeric(
                                   dict_get(s[k].grades_json, G[i][1], <<>>))]
                    /\ GradesStep(report.user_id, G[i][1], 1)
                           => analyze_grade_trend(handed) = "improving"
                    /\ GradesStep(report.user_id, G[i][1], -1)
                           => analyze_grade_trend(handed) = "declining"

\* The position of a difficulty in easy < medium < hard; a string outside
\* the three tiers is placed where adjust_difficulty places it, at medium.
TierRank(difficulty) ==
    CASE difficulty = "easy"   -> 0
      [] difficulty = "medium" -> 1
      [] difficulty = "hard"   -> 2
      [] OTHER                 -> 1

\* C23: over consecutive reviews of one card the difficulty never
\* oscillates: when the review that brought the counters to (times_reviewed,
\* times_correct) promoted the card, the very next review, correct or not,
\* does not demote it, and when it demoted the card the very next review does
\* not promote it.
C23_NoOscillation ==
    (/\ call.fn = "adjust_difficulty"
     /\ args.times_reviewed >= 1
     /\ args.times_correct <= args.times_reviewed)
    => \A correct \in BOOLEAN :
           LET first == call.result
               second == adjust_difficulty(first, args.times_reviewed + 1,
                             args.times_correct + (IF correct THEN 1 ELSE 0))
           IN  /\ ~(/\ TierRank(first) > TierRank(args.difficulty)
                    /\ TierRank(second) < TierRank(first))
               /\ ~(/\ TierRank(first) < TierRank(args.difficulty)
                    /\ TierRank(second) > TierRank(first))

\* The third review, all three correct, promotes an easy card; a wrong
\* fourth answer leaves it at medium.
C23_Witness ==
    /\ call.fn = "adjust_difficulty"
    /\ args.difficulty = "easy"
    /\ args.times_reviewed = 3
    /\ args.times_correct = 3
    /\ call.result = "medium"
    /\ adjust_difficulty(call.result, 4, 3) = "medium"

\* C24: within one review the returned mastery, the next review date and
\* the new difficulty are computed from the same counter pair (the one the
\* review stores) and from the difficulty stored before the review; the next
\* review date uses the interval table of that earlier difficulty.
C24_SameInputs ==
    [][\A id \in CardIds :
          ReviewedStep(id) =>
              LET difficulty == flashcards[id].difficulty
                  times_reviewed == flashcards'[id].times_reviewed
                  times_correct == flashcards'[id].times_correct
                  mastery == calculate_mastery_level(times_reviewed,
                                 times_correct, difficulty)
              IN  /\ response'.mastery_level
                         = [num |-> mastery.num * 100, den |-> mastery.den]
                  /\ flashcards'[id].next_review_date
                         = calculate_next_review_date(
                               flashcards'[id].last_reviewed, difficulty,
                               StepCorrect, times_reviewed)
                  /\ flashcards'[id].difficulty
                         = adjust_difficulty(difficulty, times_reviewed,
                                             times_correct)]_vars

\* The third correct review has promoted an easy card to medium, and the
\* next review is 14 days ahead (easy) where the medium table has 10.
C24_Witness ==
    \E id \in CardIds :
        /\ flashcards[id] # NoCard
        /\ flashcards[id].difficulty = "medium"
        /\ flashcards[id].times_reviewed = 3
        /\ flashcards[id].times_correct = 3
        /\ flashcards[id].next_review_date = flashcards[id].last_reviewed + 14
        /\ response.status = "ok"

\* The recorded reviews of a card, all of them or the correct ones.
ReviewRows(card_id, only_correct) ==
    { k \in 1..Len(flashcard_reviews) :
        /\ flashcard_reviews[k].card_id = card_id
        /\ only_correct => flashcard_reviews[k].correct }

\* C25: no review is lost when requests for one card interleave: once every
\* request has completed, the stored times_reviewed of a card is the number
\* of its recorded reviews and times_correct the number of correct ones.
C25_NoLostUpdate ==
    InFlight = {} =>
        \A id \in CardIds :
            flashcards[id] # NoCard =>
                /\ flashcards[id].times_reviewed
                       = Cardinality(ReviewRows(id, FALSE))
                /\ flashcards[id].times_correct
                       = Cardinality(ReviewRows(id, TRUE))

\* C26: a review request for a card that does not exist or belongs to
\* another user raises "Flashcard not found" and changes nothing: a step
\* that answers with an error names a card the user does not own and leaves
\* the cards and the review records as they were, and a review is recorded
\* or a card changed only for the card's owner.
C26_NotFoundChangesNothing ==
    [][/\ (response' # response /\ response'.status = "error")
           => /\ response'.detail = "Flashcard not found"
              /\ \/ flashcards[response'.card_id] = NoCard
                 \/ flashcards[response'.card_id].user_id
                        # response'.user_id
              /\ UNCHANGED <<flashcards, flashcard_reviews>>
       /\ \A id \in CardIds :
              (flashcards[id] # NoCard /\ flashcards'[id] # flashcards[id])
                  => /\ ReviewedStep(id)
                     /\ response'.status = "ok"
                     /\ flashcard_reviews'[Len(flashcard_reviews')].user_id
                            = flashcards[id].user_id
       /\ flashcard_reviews' # flashcard_reviews
              => \E id \in CardIds :
                     /\ ReviewedStep(id)
                     /\ flashcards[id] # NoCard
                     /\ flashcard_reviews'[Len(flashcard_reviews')].user_id
                            = flashcards[id].user_id]_vars

\* A card with two recorded reviews was then requested by a user who does
\* not own it: the error is returned and the counters still say two.
C26_Witness ==
    \E id \in CardIds :
        /\ flashcards[id] # NoCard
        /\ response.status = "error"
        /\ response.detail = "Flashcard not found"
        /\ response.card_id = id
        /\ response.user_id # flashcards[id].user_id
        /\ flashcards[id].times_reviewed = 2
        /\ Len(flashcard_reviews) = 2

\* C27: a card whose difficulty is one of easy, medium and hard keeps a
\* difficulty among the three through every step, and a single review moves
\* it by at most one tier.
C27_OneTierPerReview ==
    [][\A id \in CardIds :
          (/\ flashcards[id] # NoCard
           /\ flashcards[id].difficulty \in Tiers)
          => /\ flashcards'[id] # NoCard
             /\ flashcards'[id].difficulty \in Tiers
             /\ TierRank(flashcards'[id].difficulty)
                    - TierRank(flashcards[id].difficulty) \in {-1, 0, 1}]_vars

\* Four correct reviews have taken a card to hard; the fourth one found it
\* at medium (its date is 21 days ahead, the medium table's entry).
C27_Witness ==
    \E id \in CardIds :
        /\ flashcards[id] # NoCard
        /\ flashcards[id].difficulty = "hard"
        /\ flashcards[id].times_reviewed = 4
        /\ flashcards[id].times_correct = 4
        /\ flashcards[id].next_review_date = flashcards[id].last_reviewed + 21

\* C28: for every difficulty string, answer and review count the date
\* returned by calculate_next_review_date is 1 to 30 days after
\* last_reviewed, and so every reviewed card has its next_review_date 1 to 30
\* days after its last_reviewed.
C28_NextReviewLater ==
    /\ \A difficulty \in Difficulties, correct \in BOOLEAN,
          times_reviewed \in 0..MaxCount, last_reviewed \in 0..MaxClock :
           calculate_next_review_date(last_reviewed, difficulty, correct,
                                      times_reviewed) - last_reviewed
               \in 1..30
    /\ \A id \in CardIds :
           (flashcards[id] # NoCard /\ flashcards[id].times_reviewed > 0)
               => flashcards[id].next_review_date
                      - flashcards[id].last_reviewed \in 1..30

\* An easy card that stayed easy (3 of 4 correct) is due 30 days after its
\* fourth review.
C28_Witness ==
    \E id \in CardIds :
        /\ flashcards[id] # NoCard
        /\ flashcards[id].difficulty = "easy"
        /\ flashcards[id].times_reviewed = 4
        /\ flashcards[id].times_correct = 3
        /\ flashcards[id].next_review_date = flashcards[id].last_reviewed + 30

MaxPlans == 2

max_retries == 2

PlanUsers == {1}
PlanSubjects == {"Math", "Physics"}
PlanSubjectLists ==
    {<<>>} \cup { <<a>> : a \in PlanSubjects }
           \cup { <<a, b>> : a \in PlanSubjects, b \in PlanSubjects }
AvailableHours == {3}

\* What the model answers to one prompt, after LLMService.generate stripped
\* the code fence: nothing, a JSON object, a JSON array, prose around an
\* object, prose around an array, prose without JSON; or the client fails.
LLMResponses == {"empty", "object", "array", "prose_object", "prose_array",
                 "prose", "unavailable"}

\* The values plan_data can hold. The texts of a plan dict are not modelled,
\* only where the dict comes from.
NonePlan == [type |-> "None"]
ListPlan == [type |-> "list"]
LLMPlan == [type |-> "dict", content |-> "llm"]
UnavailablePlan == [type |-> "dict", content |-> "llm_fallback_response"]
FallbackPlan == [type |-> "dict", content |-> "fallback"]

\* LLMService.generate_study_plan on one response: the value it returns or
\* the exception it raises. A failing client makes generate return the
\* canned JSON object; json.loads accepts "object" and "array" and the dict
\* check refuses the array; the JSONDecodeError handler returns whatever
\* the regular expression extracts, object or array, unchecked.
llm_generate_study_plan(text) ==
    CASE text = "unavailable" -> [raised |-> FALSE, value |-> UnavailablePlan]
      [] text = "empty" -> [raised |-> TRUE, value |-> NonePlan]
      [] text = "object" -> [raised |-> FALSE, value |-> LLMPlan]
      [] text = "array" -> [raised |-> TRUE, value |-> NonePlan]
      [] text = "prose_object" -> [raised |-> FALSE, value |-> LLMPlan]
      [] text = "prose_array" -> [raised |-> FALSE, value |-> ListPlan]
      [] OTHER -> [raised |-> TRUE, value |-> NonePlan]

\* The loop 'for attempt in range(max_retries)' from the given attempt on:
\* the number of calls made and the plan_data it leaves.
RECURSIVE retry_loop(_, _)
retry_loop(responses, attempt) ==
    IF attempt >= max_retries
    THEN [llm_calls |-> attempt, plan_data |-> NonePlan]
    ELSE LET out == llm_generate_study_plan(responses[attempt + 1])
         IN  IF ~out.raised
             THEN [llm_calls |-> attempt + 1, plan_data |-> out.value]
             ELSE IF attempt = max_retries - 1
             THEN [llm_calls |-> attempt + 1, plan_data |-> FallbackPlan]
             ELSE retry_loop(responses, attempt + 1)

\* The subjects of the request with a performance row below 60, or all of
\* them when there is no such row.
weak_subject_names(user_id, subjects) ==
    LET data == SelectSeq(subject_performance, LAMBDA sp :
                    /\ sp.user_id = user_id
                    /\ \E k \in 1..Len(subjects) : subjects[k] = sp.subject
                    /\ sp.strength_score < 60)
    IN  IF Len(data) > 0 THEN [k \in 1..Len(data) |-> data[k].subject]
        ELSE subjects

\* The rows 'for subject in subjects' inserts. focus_area, study_strategy
\* and weekly_schedule_json are texts built from plan_data: the row keeps
\* the content of plan_data in their place.
study_plan_rows(user_id, subjects, available_hours, plan_data) ==
    LET weak == weak_subject_names(user_id, subjects)
    IN  [k \in 1..Len(subjects) |->
            [user_id |-> user_id,
             subject |-> subjects[k],
             daily_duration_minutes |-> (available_hours * 60) \div Len(subjects),
             priority |-> IF \E j \in 1..Len(weak) : weak[j] = subjects[k]
                          THEN 8 ELSE 5,
             status |-> "ACTIVE",
             content |-> plan_data.content]]

\* StudyPlanService.generate_study_plan; responses[k] is what the model
\* answers to the k-th call. plan_data.get on a value that is no dict
\* raises AttributeError before any row is inserted.
generate_study_plan(user_id, subjects, available_hours, responses) ==
    LET loop == retry_loop(responses, 0)
        plan_data == loop.plan_data
        plans == study_plan_rows(user_id, subjects, available_hours, plan_data)
    IN  /\ Len(study_plans) + Len(subjects) <= MaxPlans
        /\ call' = [fn |-> "generate_study_plan",
                    subjects |-> subjects,
                    responses |-> responses,
                    llm_calls |-> loop.llm_calls,
                    plan_data |-> plan_data]
        /\ IF plan_data.type # "dict"
           THEN /\ response' = [status |-> "error", detail |-> "AttributeError"]
                /\ UNCHANGED study_plans
           ELSE /\ study_plans' = study_plans \o plans
                /\ response' = [status |-> "ok", plans |-> plans]
        /\ UNCHANGED <<flashcards, flashcard_reviews, clock, args>>
        /\ UNCHANGED <<academic_reports, subject_performance>>
        /\ UNCHANGED <<requests, invite_codes, user_relationships>>

NextStudyPlan ==
    \E user_id \in PlanUsers, subjects \in PlanSubjectLists,
       available_hours \in AvailableHours,
       responses \in [1..max_retries -> LLMResponses] :
        generate_study_plan(user_id, subjects, available_hours, responses)

SpecStudyPlan == Init /\ [][NextStudyPlan]_vars

\* C30: generate_study_plan calls the LLM plan generator at most max_retries
\* (2) times, stops after the first call that succeeds, uses the fixed
\* fallback plan when both calls fail, leaves the loop with plan_data
\* defined, and then returns one plan per requested subject without raising.
C30_RetryThenOnePlanPerSubject ==
    call.fn = "generate_study_plan" =>
        LET first == llm_generate_study_plan(call.responses[1])
            second == llm_generate_study_plan(call.responses[2])
        IN  /\ call.llm_calls <= 2
            /\ ~first.raised => call.llm_calls = 1
            /\ (first.raised /\ second.raised) => call.plan_data = FallbackPlan
            /\ call.plan_data # NonePlan
            /\ response.status = "ok"
            /\ Len(response.plans) = Len(call.subjects)

=============================================================================
